---- MODULE Spec2Model ----
(***************************************************************************)
(* Workflow orchestration core of the HOBBYTAN council office:             *)
(*   - the plan registry (actionPlans, upsertActionPlan, executeActionPlan) *)
(*   - the phase state machine (startWorkflow and its two entry points)    *)
(*   - the generation dispatch layer (client requestLlmText, proxy         *)
(*     handleLlmText and the four provider request functions)              *)
(*   - the governance watcher (the debounced observer effect and           *)
(*     runGovernanceWatch)                                                 *)
(* Each part has its own specification over the shared variables.          *)
(***************************************************************************)
EXTENDS Integers, Sequences, FiniteSets, TLC

(***************************************************************************)
(* Bounds of the model                                                     *)
(***************************************************************************)
NumThreads == 2
NumRegistryMembers == 1
MaxUpserts == 2
MaxExecutions == 2
MaxRuns == 2
MaxCallFailures == 1
MaxCalls == 1
MaxTriggers == 4
MaxWatchedMessages == 2
MaxCooldowns == 1

(***************************************************************************)
(* Static data (src/src/data/council.ts)                                   *)
(***************************************************************************)
COUNCIL_MEMBERS ==
  << "CEO-HOBBY", "HOST-TAN", "ATTENDANT-TAN", "PO-TAN", "PM-TAN", "BA-TAN",
     "DEV-TAN", "QA-TAN", "UX-TAN", "HR-TAN", "LEGAL-TAN", "MARKETING-TAN",
     "CS-TAN", "RESEARCHER-TAN" >>

SeqRange(s) == { s[i] : i \in 1..Len(s) }

MEMBER_BY_ID == SeqRange(COUNCIL_MEMBERS)

\* getMember(memberId) is defined exactly for the ids of the roster
getMember(memberId) == memberId \in MEMBER_BY_ID

PlanCap == 220

Threads == 1..NumThreads

\* the two management roles, and the first roster members after them
ManagementRoles == { "PO-TAN", "PM-TAN" }
RegistryMembers ==
  { COUNCIL_MEMBERS[i] : i \in 6..(5 + NumRegistryMembers) }

(***************************************************************************)
(* Texts are sequences of characters, so that trimming is computed.        *)
(***************************************************************************)
RECURSIVE TrimLeft(_)
TrimLeft(s) ==
  IF s = << >> THEN s
  ELSE IF Head(s) = " " THEN TrimLeft(Tail(s)) ELSE s

RECURSIVE TrimRight(_)
TrimRight(s) ==
  IF s = << >> THEN s
  ELSE IF s[Len(s)] = " " THEN TrimRight(SubSeq(s, 1, Len(s) - 1)) ELSE s

\* String.prototype.trim
Trim(s) == TrimRight(TrimLeft(s))

\* texts returned by requestLlmText (trimmed, never blank) and offline texts
GeneratedTexts == { << "a" >>, << "b" >> }
\* a failure-substitute note ends with the error message of the failed call,
\* which carries the raw body of the proxy response
FailureNotes == { << "f", " " >> }
NoteTexts == GeneratedTexts \cup FailureNotes

PlanSources == { "workflow", "management", "manual" }

VARIABLES
  \* shared
  now,               \* Date.now(): it has advanced between two operations
  nextId,            \* makeId(): a fresh id per call
  actionPlans,       \* useState<ActionPlanItem[]>, newest first
  \* plan execution
  executingPlanId,   \* useState(""): 0 when no execution is marked
  executingPlan,     \* the plan object an execution in flight was called with
  issued,            \* history: per key, the most recently issued upsert
  upsertCount,       \* history: number of upserts issued
  execCount,         \* history: number of plan executions started
  execCalls,         \* history: executions in flight, calls that returned
                     \* at the guard
  \* workflow orchestrator
  running,           \* useState(false)
  phase,             \* useState<WorkflowPhase>("idle")
  workflowError,     \* useState("")
  agentActive,       \* agents[id].active, as the set of active ids
  activeMembers,     \* useState<string[]>([])
  activityLogs,      \* useState<ActivityLog[]>, as counts per (thread, kind)
  meetingTurns,      \* useState<MeetingTurn[]>, newest first
  reports,           \* cloudReports and localReports
  messages,          \* cloudMessages and localMessages
  governanceAlerts,  \* useState<GovernanceAlert[]>, newest first
  threadTitle,       \* threads[i].title
  activeThreadId,    \* useState(activeThreadId)
  user,              \* useState<User | null>: TRUE when signed in
  sendingMessage,    \* useState(false)
  runs,              \* the startWorkflow invocation of each entry point
  dispatchCalls,     \* history: number of requestLlmText calls made
  callFailures,      \* history: number of external calls that threw
  runsAccepted,      \* history: number of accepted startWorkflow calls
  workflowFailures,  \* history: number of runs that ended in the catch block
  \* text dispatch through the proxy
  call,              \* the requestLlmText call being served
  backendRequests,   \* the requests the proxy sent to the provider for it
  callsDone,         \* history: number of calls that returned or threw
  \* governance watcher effect
  governancePollingRef,    \* useRef(false)
  governanceLastRunRef,    \* useRef(0)
  governanceSignatureRef,  \* useRef("")
  governanceTimer,         \* the pending window.setTimeout of the effect
  governanceCleanup,       \* TRUE when the last effect run returned a cleanup
  auditsInFlight,          \* runGovernanceWatch calls that have not settled
  triggers,                \* history: the fingerprints the effect computed
  audits,                  \* history: the runGovernanceWatch calls started
  \* collaboration session runner
  session,                 \* the runCollaboration call being followed
  \* chat replies
  batch                    \* the triggerOfficerReplies call being followed

registryVars ==
  << executingPlanId, executingPlan, issued, upsertCount, execCount,
     execCalls >>

workflowVars ==
  << running, phase, workflowError, agentActive, activeMembers, activityLogs,
     meetingTurns, reports, messages, governanceAlerts, threadTitle,
     activeThreadId, user, sendingMessage, runs, dispatchCalls, callFailures,
     runsAccepted, workflowFailures >>

sharedVars == << now, nextId, actionPlans >>

proxyVars == << call, backendRequests, callsDone >>

watcherVars ==
  << governancePollingRef, governanceLastRunRef, governanceSignatureRef,
     governanceTimer, governanceCleanup, auditsInFlight, triggers, audits >>

collabVars == << session >>

chatVars == << batch >>

serviceVars == << proxyVars, watcherVars, collabVars, chatVars >>

vars == << sharedVars, registryVars, workflowVars, serviceVars >>

Keys == Threads \X MEMBER_BY_ID

NoUpsert == [ n |-> 0, text |-> << >>, source |-> "none" ]

NoPlan ==
  [ id |-> 0, threadId |-> 0, memberId |-> "", plan |-> << >>,
    source |-> "none", createdAt |-> 0, updatedAt |-> 0,
    lastExecutedAt |-> 0, lastExecutionSummary |-> << >> ]

(***************************************************************************)
(* Plan registry                                                           *)
(***************************************************************************)
\* previous.findIndex(item => item.threadId === threadId &&
\*                            item.memberId === memberId); 0 stands for -1
FindIndex(previous, threadId, memberId) ==
  LET hits == { i \in 1..Len(previous) :
                  /\ previous[i].threadId = threadId
                  /\ previous[i].memberId = memberId }
  IN IF hits = {} THEN 0
     ELSE CHOOSE i \in hits : \A j \in hits : i <= j

\* list.slice(0, n)
SliceTo(list, n) == SubSeq(list, 1, IF Len(list) < n THEN Len(list) ELSE n)

\* a plausible slip: every contribution is stored as a new record
upsertAppendsAlways(previous, memberId, plan, source, threadId, clock, id) ==
  IF ~getMember(memberId) \/ Trim(plan) = << >> THEN previous
  ELSE SliceTo(
         << [ id |-> id, threadId |-> threadId, memberId |-> memberId,
              plan |-> Trim(plan), source |-> source, createdAt |-> clock,
              updatedAt |-> clock, lastExecutedAt |-> 0,
              lastExecutionSummary |-> << >> ] >> \o previous, PlanCap)

\* a plausible slip: the update keeps the old source tag
upsertKeepsSource(previous, memberId, plan, source, threadId, clock, id) ==
  IF ~getMember(memberId) \/ Trim(plan) = << >> THEN previous
  ELSE LET existingIndex == FindIndex(previous, threadId, memberId)
       IN IF existingIndex = 0
          THEN SliceTo(
                 << [ id |-> id, threadId |-> threadId, memberId |-> memberId,
                      plan |-> Trim(plan), source |-> source,
                      createdAt |-> clock, updatedAt |-> clock,
                      lastExecutedAt |-> 0,
                      lastExecutionSummary |-> << >> ] >> \o previous, PlanCap)
          ELSE [ previous EXCEPT ![existingIndex] =
                   [ @ EXCEPT !.plan = Trim(plan), !.updatedAt = clock ] ]

\* a plausible slip: the list is cut one below its capacity
upsertCutsEarly(previous, memberId, plan, source, threadId, clock, id) ==
  IF ~getMember(memberId) \/ Trim(plan) = << >> THEN previous
  ELSE LET existingIndex == FindIndex(previous, threadId, memberId)
       IN IF existingIndex = 0
          THEN SliceTo(
                 << [ id |-> id, threadId |-> threadId, memberId |-> memberId,
                      plan |-> Trim(plan), source |-> source,
                      createdAt |-> clock, updatedAt |-> clock,
                      lastExecutedAt |-> 0,
                      lastExecutionSummary |-> << >> ] >> \o previous,
                 PlanCap - 1)
          ELSE [ previous EXCEPT ![existingIndex] =
                   [ @ EXCEPT !.plan = Trim(plan), !.source = source,
                              !.updatedAt = clock ] ]

\* upsertActionPlan: the new list of plans
upsertActionPlan(previous, memberId, plan, source, threadId, clock, id) ==
  IF ~getMember(memberId) \/ Trim(plan) = << >> THEN previous
  ELSE LET existingIndex == FindIndex(previous, threadId, memberId)
       IN IF existingIndex = 0
          THEN SliceTo(
                 << [ id |-> id, threadId |-> threadId, memberId |-> memberId,
                      plan |-> Trim(plan), source |-> source,
                      createdAt |-> clock, updatedAt |-> clock,
                      lastExecutedAt |-> 0,
                      lastExecutionSummary |-> << >> ] >> \o previous, PlanCap)
          ELSE [ previous EXCEPT ![existingIndex] =
                   [ @ EXCEPT !.plan = Trim(plan), !.source = source,
                              !.updatedAt = clock ] ]

\* one call of upsertActionPlan by one of its callers
IssueUpsert(memberId, plan, source, threadId) ==
  /\ upsertCount < MaxUpserts
  /\ actionPlans' =
       upsertActionPlan(actionPlans, memberId, plan, source, threadId, now,
                        nextId)
  /\ nextId' = nextId + 1
  /\ issued' = [ issued EXCEPT ![<< threadId, memberId >>] =
                   [ n |-> @.n + 1, text |-> plan, source |-> source ] ]
  /\ upsertCount' = upsertCount + 1
  /\ now' = now + 1

\* startWorkflow: the PO-TAN and PM-TAN plans, source management
UpsertManagement ==
  \E t \in Threads, m \in ManagementRoles, text \in GeneratedTexts :
    /\ IssueUpsert(m, text, "management", t)
    /\ UNCHANGED << executingPlanId, executingPlan, execCount, execCalls,
                    workflowVars, serviceVars >>

\* startWorkflow: notes.forEach(upsert ... "workflow")
UpsertCollaborationNote ==
  \E t \in Threads, m \in RegistryMembers \cup ManagementRoles,
     text \in NoteTexts :
    /\ IssueUpsert(m, text, "workflow", t)
    /\ UNCHANGED << executingPlanId, executingPlan, execCount, execCalls,
                    workflowVars, serviceVars >>

\* triggerOfficerReplies: the reply of a successful generation, source manual
UpsertChatReply ==
  \E t \in Threads, m \in RegistryMembers \cup ManagementRoles,
     text \in GeneratedTexts :
    /\ IssueUpsert(m, text, "manual", t)
    /\ UNCHANGED << executingPlanId, executingPlan, execCount, execCalls,
                    workflowVars, serviceVars >>

\* executeActionPlan up to its first await, for the plan at position i of
\* the list: the guard and the marker
ExecuteActionPlanAt(i) ==
  /\ execCount < MaxExecutions
  /\ executingPlanId = 0
  /\ getMember(actionPlans[i].memberId)
  /\ executingPlanId' = actionPlans[i].id
  /\ executingPlan' = actionPlans[i]
  /\ execCount' = execCount + 1
  /\ execCalls' = [ execCalls EXCEPT !.inFlight = @ + 1 ]
  /\ now' = now + 1
  /\ UNCHANGED << nextId, actionPlans, issued, upsertCount, workflowVars,
                  serviceVars >>

\* the operator executes a plan of the list
ExecuteActionPlanStart ==
  \E i \in 1..Len(actionPlans) : ExecuteActionPlanAt(i)

\* a plausible slip: the execution result replaces the text of the plan
MarkExecutedStoresReply(previous, planId, summary, clock) ==
  [ i \in 1..Len(previous) |->
      IF previous[i].id = planId
      THEN [ previous[i] EXCEPT !.lastExecutedAt = clock,
                                !.lastExecutionSummary = summary,
                                !.plan = summary,
                                !.updatedAt = clock ]
      ELSE previous[i] ]

\* previous.map(item => item.id === plan.id ? {...item, lastExecutedAt, ...})
MarkExecuted(previous, planId, summary, clock) ==
  [ i \in 1..Len(previous) |->
      IF previous[i].id = planId
      THEN [ previous[i] EXCEPT !.lastExecutedAt = clock,
                                !.lastExecutionSummary = summary,
                                !.updatedAt = clock ]
      ELSE previous[i] ]

\* executeActionPlan: the generation and the uploads succeeded
ExecuteActionPlanSucceed ==
  \E reply \in GeneratedTexts :
    /\ executingPlan # NoPlan
    /\ actionPlans' = MarkExecuted(actionPlans, executingPlan.id, reply, now)
    /\ executingPlanId' = 0
    /\ executingPlan' = NoPlan
    /\ execCalls' = [ execCalls EXCEPT !.inFlight = @ - 1 ]
    /\ now' = now + 1
    /\ UNCHANGED << nextId, issued, upsertCount, execCount, workflowVars,
                    serviceVars >>

\* a plausible slip: the marker is cleared on the success path only
ExecuteActionPlanFailKeepsMarker ==
  /\ executingPlan # NoPlan
  /\ executingPlan' = NoPlan
  /\ execCalls' = [ execCalls EXCEPT !.inFlight = @ - 1 ]
  /\ now' = now + 1
  /\ UNCHANGED << nextId, actionPlans, executingPlanId, issued, upsertCount,
                  execCount, workflowVars, serviceVars >>

\* executeActionPlan: the generation or an upload threw
ExecuteActionPlanFail ==
  /\ executingPlan # NoPlan
  /\ executingPlanId' = 0
  /\ executingPlan' = NoPlan
  /\ execCalls' = [ execCalls EXCEPT !.inFlight = @ - 1 ]
  /\ now' = now + 1
  /\ UNCHANGED << nextId, actionPlans, issued, upsertCount, execCount,
                  workflowVars, serviceVars >>

\* the number of executeActionPlan calls that return at the guard
MaxRejections == 1

\* executeActionPlan for another plan of the list while an execution is
\* marked: the call returns at its first test
ExecuteActionPlanRejected ==
  \E i \in 1..Len(actionPlans) :
    /\ executingPlanId # 0
    /\ actionPlans[i].id # executingPlanId
    /\ execCalls.rejected < MaxRejections
    /\ execCalls' = [ execCalls EXCEPT !.rejected = @ + 1 ]
    /\ UNCHANGED << now, nextId, actionPlans, executingPlanId, executingPlan,
                    issued, upsertCount, execCount, workflowVars,
                    serviceVars >>

(***************************************************************************)
(* Initial state of the App component                                      *)
(***************************************************************************)
Entries == { "form", "chat" }
RunSlots == 1..MaxRuns

NoRun ==
  [ pc |-> "none", entry |-> "none", task |-> << >>, threadId |-> 0,
    user |-> FALSE, running |-> FALSE, participants |-> << >>,
    response |-> << >>, brainstormParticipants |-> << >>,
    strategy |-> << >>, poPlan |-> << >>, pmInput |-> << >>,
    pmPlan |-> << >>, notes |-> << >>, inbound |-> "none", failedDocuments |-> {},
    report |-> [ offline |-> FALSE, text |-> << >> ] ]

LogKinds ==
  { "brainstorming", "collaboration", "execution", "reporting", "failure" }

DefaultThreadTitle == << "d" >>

RegistryStateInit ==
  /\ nextId = 1
  /\ actionPlans = << >>
  /\ executingPlanId = 0
  /\ executingPlan = NoPlan
  /\ issued = [ k \in Keys |-> NoUpsert ]
  /\ upsertCount = 0
  /\ execCount = 0
  /\ execCalls = [ inFlight |-> 0, rejected |-> 0 ]

WorkflowStateInit(signedIn) ==
  /\ running = FALSE
  /\ phase = "idle"
  /\ workflowError = ""
  /\ agentActive = {}
  /\ activeMembers = << >>
  /\ activityLogs = [ k \in Threads \X LogKinds |-> 0 ]
  /\ meetingTurns = << >>
  /\ reports = << >>
  /\ messages = << >>
  /\ governanceAlerts = << >>
  /\ threadTitle = [ t \in Threads |-> DefaultThreadTitle ]
  /\ activeThreadId = 1
  /\ user = signedIn
  /\ sendingMessage = FALSE
  /\ runs = [ i \in RunSlots |-> NoRun ]
  /\ dispatchCalls = 0
  /\ callFailures = 0
  /\ runsAccepted = 0
  /\ workflowFailures = 0

Providers == { "openai", "anthropic", "xai", "gemini" }

\* validated: the handler has looked at the body; lookedUp: a secret has
\* been read
NoCall ==
  [ pc |-> "idle", route |-> "text", provider |-> "openai",
    useWebSearch |-> FALSE, input |-> << >>, authorization |-> << >>,
    secret |-> << >>, validated |-> FALSE, lookedUp |-> FALSE,
    status |-> 0, text |-> << >>, outcome |-> "none", returned |-> << >> ]

ProxyStateInit ==
  /\ call = NoCall
  /\ backendRequests = << >>
  /\ callsDone = 0

\* no runCollaboration call is followed
NoSession ==
  [ pc |-> "none", online |-> FALSE, threadId |-> 0, task |-> << >>,
    strategy |-> << >>, managementContext |-> << >>, participants |-> << >>,
    selected |-> << >>, index |-> 0, priorDialogue |-> << >>,
    notes |-> << >>, transcript |-> << >>, inputs |-> << >>, failed |-> {} ]

SessionStateInit == session = NoSession

\* no triggerOfficerReplies call is followed
NoBatch ==
  [ pc |-> "none", online |-> FALSE, threadId |-> 0, ceoPrompt |-> << >>,
    targetId |-> "none", targets |-> << >>, index |-> 0, priorDialogue |-> << >>,
    inputs |-> << >>, outcomes |-> << >>, moved |-> FALSE, passes |-> 0 ]

ChatStateInit == batch = NoBatch

NoSignature == << >>
NoTimer == [ armed |-> FALSE, signature |-> NoSignature, threadId |-> 0,
             due |-> 0 ]

WatcherStateInit ==
  /\ governancePollingRef = FALSE
  /\ governanceLastRunRef = 0
  /\ governanceSignatureRef = NoSignature
  /\ governanceTimer = NoTimer
  /\ governanceCleanup = FALSE
  /\ auditsInFlight = << >>
  /\ triggers = << >>
  /\ audits = << >>

RegistryInit ==
  /\ now = 1
  /\ RegistryStateInit
  /\ WorkflowStateInit(FALSE)
  /\ ProxyStateInit
  /\ ChatStateInit
  /\ WatcherStateInit
  /\ SessionStateInit

RegistryNext ==
  \/ UpsertManagement
  \/ UpsertCollaborationNote
  \/ UpsertChatReply
  \/ ExecuteActionPlanStart
  \/ ExecuteActionPlanSucceed
  \/ ExecuteActionPlanFail

SpecRegistry == RegistryInit /\ [][RegistryNext]_vars

(***************************************************************************)
(* Properties of the plan registry                                         *)
(***************************************************************************)
PlansOf(threadId, memberId) ==
  { i \in 1..Len(actionPlans) :
      /\ actionPlans[i].threadId = threadId
      /\ actionPlans[i].memberId = memberId }

\* C1: in every reachable state the registry holds at most one ActionPlan per
\* (thread, member) pair, whatever the sources and the interleaving of the
\* upserts and plan executions.
PlanUniqueness ==
  \A k \in Keys : Cardinality(PlansOf(k[1], k[2])) <= 1

\* a key that was upserted twice, the second time from another source, holds
\* one plan, which was updated in place and then executed
PlanUniquenessWitness ==
  \E k \in Keys :
    /\ issued[k].n >= 2
    /\ Cardinality(PlansOf(k[1], k[2])) = 1
    /\ \E i \in PlansOf(k[1], k[2]) :
         /\ actionPlans[i].createdAt < actionPlans[i].updatedAt
         /\ actionPlans[i].source = "manual"
         /\ actionPlans[i].lastExecutedAt > 0

PlansIn(plans, threadId, memberId) ==
  { i \in 1..Len(plans) :
      /\ plans[i].threadId = threadId
      /\ plans[i].memberId = memberId }

\* the stored plan of every upserted key carries the trimmed text and the
\* source of the most recent upsert for that key
StoredIsLastUpsertTrimmed ==
  \A k \in Keys :
    issued[k].n > 0 =>
      \A i \in PlansIn(actionPlans, k[1], k[2]) :
        /\ actionPlans[i].plan = Trim(issued[k].text)
        /\ actionPlans[i].source = issued[k].source

\* an upsert that finds no record creates one with createdAt = updatedAt; an
\* upsert that finds one overwrites plan, source and updatedAt in place and
\* keeps id and createdAt
UpsertCreatesOrOverwrites ==
  \A k \in Keys :
    issued'[k] # issued[k] =>
      IF PlansIn(actionPlans, k[1], k[2]) = {}
      THEN \E j \in PlansIn(actionPlans', k[1], k[2]) :
             /\ actionPlans'[j].createdAt = now
             /\ actionPlans'[j].updatedAt = now
             /\ actionPlans'[j].plan = Trim(issued'[k].text)
             /\ actionPlans'[j].source = issued'[k].source
      ELSE \E i \in PlansIn(actionPlans, k[1], k[2]) :
             \E j \in PlansIn(actionPlans', k[1], k[2]) :
               /\ actionPlans'[j].id = actionPlans[i].id
               /\ actionPlans'[j].createdAt = actionPlans[i].createdAt
               /\ actionPlans'[j].updatedAt = now
               /\ actionPlans'[j].plan = Trim(issued'[k].text)
               /\ actionPlans'[j].source = issued'[k].source

\* C2 (as amended): after any sequence of upserts the plan stored for a key
\* has the trimmed text and the source of the most recently issued upsert for
\* that key; a first upsert creates the record with createdAt = updatedAt, a
\* later one overwrites plan, source and updatedAt and keeps id and createdAt.
LastWriterWinsTrimmed ==
  /\ []StoredIsLastUpsertTrimmed
  /\ [][UpsertCreatesOrOverwrites]_vars

\* a key whose second upsert carried an untrimmed failure note: the record of
\* the first upsert was overwritten with the trimmed note
LastWriterWinsWitness ==
  \E k \in Keys :
    /\ issued[k].n = 2
    /\ issued[k].text \in FailureNotes
    /\ \E i \in PlansIn(actionPlans, k[1], k[2]) :
         /\ actionPlans[i].plan = Trim(issued[k].text)
         /\ actionPlans[i].plan # issued[k].text
         /\ actionPlans[i].createdAt < actionPlans[i].updatedAt

\* C2 as stated: the stored text equals the text of the most recently issued
\* upsert
LastWriterWinsVerbatim ==
  \A k \in Keys :
    issued[k].n > 0 =>
      \A i \in PlansIn(actionPlans, k[1], k[2]) :
        /\ actionPlans[i].plan = issued[k].text
        /\ actionPlans[i].source = issued[k].source
(***************************************************************************)
(* Workflow orchestrator: helpers                                          *)
(***************************************************************************)
DEFAULT_COLLABORATION_TEAM ==
  << "ATTENDANT-TAN", "PO-TAN", "PM-TAN", "DEV-TAN", "UX-TAN", "QA-TAN",
     "BA-TAN", "LEGAL-TAN", "MARKETING-TAN", "CS-TAN", "RESEARCHER-TAN" >>

\* COUNCIL_MEMBERS.filter(member => member.id !== "CEO-HOBBY").map(id)
nonCeoMembers == SelectSeq(COUNCIL_MEMBERS, LAMBDA id : id # "CEO-HOBBY")

TitleLimit == 36
CollaborationLimit == 8
TurnCap == 320
AlertCap == 140

\* the title startWorkflow gives the thread
TitleOfTask(trimmedTask) ==
  IF Len(trimmedTask) > TitleLimit
  THEN Trim(SubSeq(trimmedTask, 1, TitleLimit)) \o << ".", ".", "." >>
  ELSE trimmedTask

\* directives typed into the directive form (taskInput, passed untrimmed)
FormDirectives == { << >>, << " " >>, << "t", " " >> }
\* the task of a chat "/run <task>" message, after replace and trim
ChatDirectives == { << "u" >> }

\* fixed texts of the offline mode
OfflineStrategy == << "o" >>
OfflinePoPlan == << "p" >>
OfflinePmPlan == << "m" >>
OfflineNote == << "n" >>
\* the text of one generation call
GeneratedText == << "a" >>
ParsedStrategy == << "s" >>
FailureNote == << "f", " " >>

\* the texts a brainstorm call can return: plain prose, and prose around a
\* JSON object
BrainstormResponses ==
  { GeneratedText, << "x", "{", "s", "}", "y" >> }

\* JSON.parse accepts the text as an object: braces around members, which
\* the tokens between the braces stand for
IsJsonObject(text) ==
  /\ Len(text) >= 2
  /\ text[1] = "{"
  /\ text[Len(text)] = "}"
  /\ \A k \in 2..(Len(text) - 1) : text[k] \notin { "{", "}" }

NoJson == << >>

\* tryParseJson: the trimmed text, or else its slice from the first "{" to
\* the last "}"; NoJson stands for null
tryParseJson(rawText) ==
  LET direct == Trim(rawText)
      opens == { k \in 1..Len(direct) : direct[k] = "{" }
      closes == { k \in 1..Len(direct) : direct[k] = "}" }
      start == IF opens = {} THEN 0
               ELSE CHOOSE k \in opens : \A j \in opens : k <= j
      end == IF closes = {} THEN 0
             ELSE CHOOSE k \in closes : \A j \in closes : j <= k
  IN IF IsJsonObject(direct) THEN direct
     ELSE IF start = 0 \/ end = 0 \/ end <= start THEN NoJson
     ELSE IF IsJsonObject(SubSeq(direct, start, end))
          THEN SubSeq(direct, start, end)
          ELSE NoJson

\* item.toUpperCase() on the participant ids a brainstorm response may carry
ToUpperCase(id) ==
  CASE id = "dev-tan" -> "DEV-TAN"
    [] id = "ceo-hobby" -> "CEO-HOBBY"
    [] OTHER -> id

\* participant lists of a parsed brainstorm response
ParsedParticipantLists ==
  { << >>,
    << "CEO-HOBBY" >>,
    << "dev-tan", "ceo-hobby", "NOBODY-TAN", "DEV-TAN", "QA-TAN" >> }

\* Array.from(new Set(list)): first occurrences, in order
Dedupe(list) ==
  LET first == { i \in 1..Len(list) :
                   \A j \in 1..(i - 1) : list[j] # list[i] }
  IN [ n \in 1..Cardinality(first) |->
         list[CHOOSE i \in first :
                Cardinality({ j \in first : j <= i }) = n] ]

MapSeq(list, Op(_)) == [ i \in 1..Len(list) |-> Op(list[i]) ]

\* a plausible slip: the director is not filtered out
CollaborationMembersKeepDirector(brainstormParticipants) ==
  LET participants ==
        Dedupe(SelectSeq(MapSeq(brainstormParticipants, ToUpperCase),
                         LAMBDA id : id \in MEMBER_BY_ID))
  IN IF Len(participants) > 0 THEN participants
     ELSE SelectSeq(DEFAULT_COLLABORATION_TEAM,
                    LAMBDA id : id \in MEMBER_BY_ID)

\* startWorkflow: the participants of the collaboration
CollaborationMembersOf(brainstormParticipants) ==
  LET participants ==
        Dedupe(SelectSeq(
                 SelectSeq(MapSeq(brainstormParticipants, ToUpperCase),
                           LAMBDA id : id # "CEO-HOBBY"),
                 LAMBDA id : id \in MEMBER_BY_ID))
  IN IF Len(participants) > 0 THEN participants
     ELSE SelectSeq(DEFAULT_COLLABORATION_TEAM,
                    LAMBDA id : id \in MEMBER_BY_ID)

\* appendLog(phase, message, threadId)
AppendLog(logs, threadId, kind) ==
  [ logs EXCEPT ![<< threadId, kind >>] = @ + 1 ]

\* n calls of appendLog
AppendLogs(logs, threadId, kind, n) ==
  [ logs EXCEPT ![<< threadId, kind >>] = @ + n ]

\* a plausible slip: the turn holds the trimmed text, as the plan does
AppendTurnTrimmed(turns, id, threadId, room, speakerId, text, source) ==
  SliceTo(<< [ id |-> id, threadId |-> threadId, room |-> room,
               speakerId |-> speakerId, text |-> Trim(text),
               source |-> source ] >> \o turns, TurnCap)

\* appendMeetingTurn: one turn, prepended
AppendTurn(turns, id, threadId, room, speakerId, text, source) ==
  SliceTo(<< [ id |-> id, threadId |-> threadId, room |-> room,
               speakerId |-> speakerId, text |-> text,
               source |-> source ] >> \o turns, TurnCap)

\* moveMembersToRoom / moveReportersToCEO: the members become active
moveMembersToRoom(active, memberIds) ==
  active \cup (SeqRange(memberIds) \cap MEMBER_BY_ID)

\* setMembersToDesk(memberIds, active)
setMembersToDesk(active, memberIds, flag) ==
  IF flag THEN active \cup (SeqRange(memberIds) \cap MEMBER_BY_ID)
  ELSE active \ SeqRange(memberIds)

InProgressPcs ==
  { "brainstorm", "management", "managementPm", "collaboration",
    "execution", "finalReport", "persistReport", "persistMessage",
    "governanceLegal", "governanceHr", "governed" }

InProgress(i) == runs[i].pc \in InProgressPcs

\* the first invocation slot not used yet; MaxRuns + 1 when all are used
nextRun ==
  IF \A i \in RunSlots : runs[i].pc # "none" THEN MaxRuns + 1
  ELSE CHOOSE i \in RunSlots :
         /\ runs[i].pc = "none"
         /\ \A j \in RunSlots : runs[j].pc = "none" => i <= j

workflowFrame ==
  << meetingTurns, reports, messages, governanceAlerts, dispatchCalls,
     callFailures, workflowFailures >>

(***************************************************************************)
(* startWorkflow: the guards and the synchronous part up to the first await *)
(***************************************************************************)
\* a plausible slip: the running flag is raised before the directive is
\* checked
RejectEmptyAfterSetRunning(task) ==
  /\ Trim(task) = << >>
  /\ workflowError' = "empty"
  /\ running' = TRUE
  /\ UNCHANGED << phase, agentActive, activeMembers, activityLogs,
                  threadTitle, activeThreadId, user, sendingMessage, runs,
                  runsAccepted, workflowFrame, sharedVars, registryVars, serviceVars >>

\* startWorkflow returns at the first guard: the directive is blank
StartWorkflowRejectEmpty(task) ==
  /\ Trim(task) = << >>
  /\ workflowError' = "empty"
  /\ UNCHANGED << running, phase, agentActive, activeMembers, activityLogs,
                  threadTitle, activeThreadId, user, sendingMessage, runs,
                  runsAccepted, workflowFrame, sharedVars, registryVars, serviceVars >>

\* startWorkflow returns at the second guard: the closure's running is true.
\* handleSendChat then leaves through its finally block.
StartWorkflowRejectRunning(i) ==
  /\ runs[i].running
  /\ workflowError' = "running"
  /\ runs' = [ runs EXCEPT ![i].pc = "rejected" ]
  /\ sendingMessage' = IF runs[i].entry = "chat" THEN FALSE ELSE sendingMessage

\* startWorkflow passes both guards and runs up to "await sleep(900)"
StartWorkflowAccept(i, closure, logs) ==
  LET trimmedTask == Trim(closure.task) IN
  /\ trimmedTask # << >>
  /\ ~closure.running
  /\ workflowError' = ""
  /\ running' = TRUE
  /\ threadTitle' =
       [ threadTitle EXCEPT ![closure.threadId] = TitleOfTask(trimmedTask) ]
  /\ activityLogs' = AppendLog(logs, closure.threadId, "brainstorming")
  /\ phase' = "brainstorming"
  /\ activeMembers' = nonCeoMembers
  /\ agentActive' =
       setMembersToDesk(moveMembersToRoom(agentActive, nonCeoMembers),
                        << "CEO-HOBBY" >>, FALSE)
  /\ runs' = [ runs EXCEPT ![i] =
                 [ closure EXCEPT !.pc = "brainstorm", !.task = trimmedTask ] ]
  /\ runsAccepted' = runsAccepted + 1

\* executeWorkflow: the directive form is submitted; its button is disabled
\* while the rendered running flag is set
FormSubmitAccepted ==
  \E task \in FormDirectives :
    /\ ~running
    /\ nextRun \in RunSlots
    /\ StartWorkflowAccept(nextRun,
         [ NoRun EXCEPT !.entry = "form", !.task = task,
                        !.threadId = activeThreadId, !.user = user,
                        !.running = running ],
         activityLogs)
    /\ UNCHANGED << activeThreadId, user, sendingMessage, workflowFrame,
                    sharedVars, registryVars, serviceVars >>

FormSubmitRejected ==
  \E task \in FormDirectives :
    /\ ~running
    /\ StartWorkflowRejectEmpty(task)

\* handleSendChat with a "/run <task>" message, up to its first await: the
\* handler and the startWorkflow it will call belong to the current render
ChatRunSubmit ==
  \E task \in ChatDirectives :
    /\ ~sendingMessage
    /\ nextRun \in RunSlots
    /\ sendingMessage' = TRUE
    /\ runs' = [ runs EXCEPT ![nextRun] =
                   [ NoRun EXCEPT !.pc = "chatPersist", !.entry = "chat",
                                  !.task = task, !.threadId = activeThreadId,
                                  !.user = user, !.running = running ] ]
    /\ UNCHANGED << running, phase, workflowError, agentActive, activeMembers,
                    activityLogs, threadTitle, activeThreadId, user,
                    runsAccepted, workflowFrame, sharedVars, registryVars, serviceVars >>

\* persistOfficeMessage: the document store when signed in, the local list
\* otherwise
PersistMessage(list, threadId, senderId, kind, cloud) ==
  Append(list, [ threadId |-> threadId, senderId |-> senderId, kind |-> kind,
                 source |-> IF cloud THEN "cloud" ELSE "local" ])

\* handleSendChat: uploads and persistOfficeMessage have returned; the
\* handler calls the startWorkflow of its render, which is rejected
ChatRunRejected ==
  \E i \in RunSlots :
    /\ runs[i].pc = "chatPersist"
    /\ messages' =
         PersistMessage(messages, runs[i].threadId, "CEO-HOBBY", "chat",
                        runs[i].user)
    /\ activityLogs' = AppendLog(activityLogs, runs[i].threadId, "execution")
    /\ StartWorkflowRejectRunning(i)
    /\ UNCHANGED << running, phase, agentActive, activeMembers, threadTitle,
                    activeThreadId, user, runsAccepted, meetingTurns, reports,
                    governanceAlerts, dispatchCalls, callFailures,
                    workflowFailures, sharedVars, registryVars, serviceVars >>

\* handleSendChat: uploads and persistOfficeMessage have returned; the
\* handler calls the startWorkflow of its render, which is accepted
ChatRunAccepted ==
  \E i \in RunSlots :
    /\ runs[i].pc = "chatPersist"
    /\ messages' =
         PersistMessage(messages, runs[i].threadId, "CEO-HOBBY", "chat",
                        runs[i].user)
    /\ StartWorkflowAccept(i, runs[i],
         AppendLog(activityLogs, runs[i].threadId, "execution"))
    /\ UNCHANGED << activeThreadId, user, sendingMessage, meetingTurns,
                    reports, governanceAlerts, dispatchCalls, callFailures,
                    workflowFailures, sharedVars, registryVars, serviceVars >>

(***************************************************************************)
(* startWorkflow: the steps between two awaits                             *)
(***************************************************************************)
\* a plausible slip: the catch block restores the phase but not the running
\* flag
CatchBlockKeepsRunning(i, logs) ==
  /\ workflowError' = "failure"
  /\ activityLogs' = AppendLog(logs, runs[i].threadId, "failure")
  /\ phase' = "idle"
  /\ running' = running
  /\ activeMembers' = << >>
  /\ agentActive' = setMembersToDesk(agentActive, COUNCIL_MEMBERS, FALSE)
  /\ runs' = [ runs EXCEPT ![i].pc = "failed" ]
  /\ workflowFailures' = workflowFailures + 1
  /\ sendingMessage' = IF runs[i].entry = "chat" THEN FALSE ELSE sendingMessage

\* the catch block of startWorkflow, and the finally block of handleSendChat
\* when the run was started from the chat
CatchBlock(i, logs) ==
  /\ workflowError' = "failure"
  /\ activityLogs' = AppendLog(logs, runs[i].threadId, "failure")
  /\ phase' = "idle"
  /\ running' = FALSE
  /\ activeMembers' = << >>
  /\ agentActive' = setMembersToDesk(agentActive, COUNCIL_MEMBERS, FALSE)
  /\ runs' = [ runs EXCEPT ![i].pc = "failed" ]
  /\ workflowFailures' = workflowFailures + 1
  /\ sendingMessage' = IF runs[i].entry = "chat" THEN FALSE ELSE sendingMessage

\* a generation call of a signed-in run throws: runBrainstorm, the PO-TAN or
\* the PM-TAN call of runPoPmManagementPlan, or runFinalReport
RunThrows ==
  \E i \in RunSlots, calls \in 1..2 :
    /\ runs[i].pc \in { "brainstorm", "management", "finalReport" }
    /\ runs[i].user
    /\ calls = 2 => runs[i].pc = "management"
    /\ callFailures < MaxCallFailures
    /\ callFailures' = callFailures + 1
    /\ dispatchCalls' = dispatchCalls + calls
    /\ CatchBlock(i, activityLogs)
    /\ UNCHANGED << threadTitle, activeThreadId, user, runsAccepted,
                    meetingTurns, reports, messages, governanceAlerts,
                    sharedVars, registryVars, serviceVars >>

\* the rest of startWorkflow after runBrainstorm returned, up to the await of
\* runPoPmManagementPlan
AfterBrainstorm(i, response, strategy, brainstormParticipants) ==
  LET r == runs[i]
      collaborationMembers == CollaborationMembersOf(brainstormParticipants)
      deskMembers ==
        SelectSeq(nonCeoMembers,
                  LAMBDA id : id \notin SeqRange(collaborationMembers))
  IN
  /\ activityLogs' =
       AppendLog(AppendLog(activityLogs, r.threadId, "brainstorming"),
                 r.threadId, "collaboration")
  /\ meetingTurns' =
       AppendTurn(meetingTurns, nextId, r.threadId, "brainstorming",
                  "ATTENDANT-TAN", strategy, "workflow")
  /\ nextId' = nextId + 1
  /\ now' = now + 1
  /\ phase' = "collaboration"
  /\ activeMembers' = collaborationMembers
  /\ agentActive' =
       setMembersToDesk(moveMembersToRoom(agentActive, collaborationMembers),
                        deskMembers, FALSE)
  /\ runs' = [ runs EXCEPT ![i].pc = "management",
                           ![i].response = response,
                           ![i].brainstormParticipants =
                             brainstormParticipants,
                           ![i].strategy = strategy,
                           ![i].participants = collaborationMembers ]
  /\ UNCHANGED << running, workflowError, threadTitle, activeThreadId, user,
                  sendingMessage, runsAccepted, reports, messages,
                  governanceAlerts, callFailures, workflowFailures,
                  actionPlans, registryVars, serviceVars >>

\* runBrainstorm without a token: the fixed offline plan
BrainstormOffline ==
  \E i \in RunSlots :
    /\ runs[i].pc = "brainstorm"
    /\ ~runs[i].user
    /\ AfterBrainstorm(i, << >>, OfflineStrategy, DEFAULT_COLLABORATION_TEAM)
    /\ UNCHANGED dispatchCalls

\* runBrainstorm: the response parses to an object
BrainstormParsed ==
  \E i \in RunSlots, text \in BrainstormResponses,
     participants \in ParsedParticipantLists :
    /\ runs[i].pc = "brainstorm"
    /\ runs[i].user
    /\ tryParseJson(text) # NoJson
    /\ dispatchCalls' = dispatchCalls + 1
    /\ AfterBrainstorm(i, text, ParsedStrategy, participants)

\* a plausible slip: a response that does not parse is thrown as an error
BrainstormUnparsedAborts ==
  \E i \in RunSlots, text \in BrainstormResponses :
    /\ runs[i].pc = "brainstorm"
    /\ runs[i].user
    /\ tryParseJson(text) = NoJson
    /\ dispatchCalls' = dispatchCalls + 1
    /\ CatchBlock(i, activityLogs)
    /\ UNCHANGED << threadTitle, activeThreadId, user, runsAccepted,
                    meetingTurns, reports, messages, governanceAlerts,
                    callFailures, sharedVars, registryVars, serviceVars >>

\* runBrainstorm: tryParseJson returns null, the raw text is the strategy
BrainstormUnparsed ==
  \E i \in RunSlots, text \in BrainstormResponses :
    /\ runs[i].pc = "brainstorm"
    /\ runs[i].user
    /\ tryParseJson(text) = NoJson
    /\ dispatchCalls' = dispatchCalls + 1
    /\ AfterBrainstorm(i, text, text, DEFAULT_COLLABORATION_TEAM)

\* startWorkflow from the return of runPoPmManagementPlan to the await of
\* sleep(1000): two meeting turns, two management plans, one log
ManagementRecorded(i, poPlan, pmPlan) ==
  LET r == runs[i]
      withPo == upsertActionPlan(actionPlans, "PO-TAN", poPlan,
                                 "management", r.threadId, now, nextId + 2)
  IN
  /\ meetingTurns' =
       AppendTurn(
         AppendTurn(meetingTurns, nextId, r.threadId, "collaboration",
                    "PO-TAN", poPlan, "workflow"),
         nextId + 1, r.threadId, "collaboration", "PM-TAN", pmPlan,
         "workflow")
  /\ actionPlans' =
       upsertActionPlan(withPo, "PM-TAN", pmPlan, "management", r.threadId,
                        now, nextId + 3)
  /\ nextId' = nextId + 4
  /\ activityLogs' = AppendLog(activityLogs, r.threadId, "collaboration")
  /\ runs' = [ runs EXCEPT ![i].pc = "collaboration",
                           ![i].poPlan = poPlan, ![i].pmPlan = pmPlan ]
  /\ UNCHANGED << now, running, phase, workflowError, agentActive,
                  activeMembers, threadTitle, activeThreadId, user,
                  sendingMessage, runsAccepted, reports, messages,
                  governanceAlerts, callFailures, workflowFailures,
                  registryVars, serviceVars >>

\* runPoPmManagementPlan returned: two meeting turns, two management plans
ManagementDone ==
  \E i \in RunSlots :
    LET r == runs[i] IN
    /\ r.pc = "management"
    /\ dispatchCalls' = dispatchCalls + (IF r.user THEN 2 ELSE 0)
    /\ ManagementRecorded(i, IF r.user THEN GeneratedText ELSE OfflinePoPlan,
                          IF r.user THEN GeneratedText ELSE OfflinePmPlan)

\* the participants whose generation call may fail during the collaboration
FailingMembers == { "DEV-TAN" }

\* runCollaboration: the note of each selected participant
NotesOf(selected, failing, online) ==
  [ k \in 1..Len(selected) |->
      [ memberId |-> selected[k],
        note |-> IF ~online THEN OfflineNote
                 ELSE IF k \in failing THEN FailureNote ELSE GeneratedText ] ]

RECURSIVE AppendNoteTurns(_, _, _, _, _)
AppendNoteTurns(turns, notes, k, id, threadId) ==
  IF k > Len(notes) THEN turns
  ELSE CHOOSE result \in
         { AppendNoteTurns(next, notes, k + 1, id + 1, threadId) :
             next \in { AppendTurn(turns, id, threadId, "collaboration",
                                   notes[k].memberId, notes[k].note,
                                   "workflow") } } : TRUE

RECURSIVE UpsertNotes(_, _, _, _, _, _)
UpsertNotes(plans, notes, k, id, threadId, clock) ==
  IF k > Len(notes) THEN plans
  ELSE CHOOSE result \in
         { UpsertNotes(next, notes, k + 1, id + 1, threadId, clock) :
             next \in { upsertActionPlan(plans, notes[k].memberId,
                                         notes[k].note, "workflow", threadId,
                                         clock, id) } } : TRUE

\* runCollaboration returned; startWorkflow upserts the notes and enters the
\* execution phase
CollaborationDone ==
  \E i \in RunSlots :
    LET r == runs[i]
        selected ==
          SelectSeq(SliceTo(r.participants, CollaborationLimit),
                    LAMBDA id : getMember(id))
    IN
    \E failing \in SUBSET { k \in 1..Len(selected) :
                              selected[k] \in FailingMembers } :
      LET notes == NotesOf(selected, failing, r.user)
          n == Len(notes)
      IN
      /\ r.pc = "collaboration"
      /\ failing # {} => r.user
      /\ callFailures + Cardinality(failing) <= MaxCallFailures
      /\ callFailures' = callFailures + Cardinality(failing)
      /\ dispatchCalls' = dispatchCalls + (IF r.user THEN n ELSE 0)
      /\ meetingTurns' =
           AppendNoteTurns(meetingTurns, notes, 1, nextId, r.threadId)
      /\ actionPlans' =
           UpsertNotes(actionPlans, notes, 1, nextId + n, r.threadId, now)
      /\ nextId' = nextId + 2 * n
      /\ now' = now + 1
      /\ activityLogs' =
           AppendLogs(AppendLogs(activityLogs, r.threadId, "collaboration",
                                 n + 1),
                      r.threadId, "execution", 1)
      /\ phase' = "execution"
      /\ agentActive' = setMembersToDesk(agentActive, r.participants, TRUE)
      /\ runs' = [ runs EXCEPT ![i].pc = "execution", ![i].notes = notes ]
      /\ UNCHANGED << running, workflowError, activeMembers, threadTitle,
                      activeThreadId, user, sendingMessage, runsAccepted,
                      reports, messages, governanceAlerts, workflowFailures,
                      registryVars, serviceVars >>
\* a plausible slip: a failed attachment upload is not caught and ends the
\* run in the catch block
ExecutionStepAbortsOnThrow(i, inbound) ==
  LET r == runs[i]
      logs == IF inbound = "none" THEN activityLogs
              ELSE AppendLogs(activityLogs, r.threadId, "execution",
                              IF inbound = "failed" THEN 1 ELSE 2)
  IN
  /\ r.pc = "execution"
  /\ inbound = "failed" => r.user
  /\ now' = now + 1
  /\ IF inbound = "failed"
     THEN /\ CatchBlock(i, logs)
          /\ UNCHANGED << threadTitle, activeThreadId, user, runsAccepted,
                          meetingTurns, reports, messages, governanceAlerts,
                          dispatchCalls, callFailures, nextId, actionPlans,
                          registryVars, serviceVars >>
     ELSE /\ activityLogs' = logs
          /\ phase' = "reporting"
          /\ agentActive' =
               setMembersToDesk(
                 moveMembersToRoom(agentActive,
                                   << "ATTENDANT-TAN", "PM-TAN", "HOST-TAN" >>),
                 << "CEO-HOBBY" >>, TRUE)
          /\ runs' = [ runs EXCEPT ![i].pc = "finalReport",
                                   ![i].inbound = inbound ]
          /\ UNCHANGED << running, workflowError, activeMembers, threadTitle,
                          activeThreadId, user, sendingMessage, runsAccepted,
                          workflowFrame, nextId, actionPlans, registryVars,
                          serviceVars >>

\* the execution phase: after the sleep the attachment, when one is selected,
\* is uploaded (the start is logged, then the completion or the caught
\* failure); the run enters the reporting phase and awaits runFinalReport.
\* inbound is "none" (workflowAttachmentFile is null), "uploaded" or "failed"
\* (uploadFileAsset threw, which takes a signed-in operator)
ExecutionStep(i, inbound) ==
  LET r == runs[i] IN
  /\ r.pc = "execution"
  /\ inbound = "failed" => r.user
  /\ now' = now + 1
  /\ activityLogs' =
       IF inbound = "none" THEN activityLogs
       ELSE AppendLogs(activityLogs, r.threadId, "execution", 2)
  /\ phase' = "reporting"
  /\ agentActive' =
       setMembersToDesk(
         moveMembersToRoom(agentActive,
                           << "ATTENDANT-TAN", "PM-TAN", "HOST-TAN" >>),
         << "CEO-HOBBY" >>, TRUE)
  /\ runs' = [ runs EXCEPT ![i].pc = "finalReport", ![i].inbound = inbound ]
  /\ UNCHANGED << running, workflowError, activeMembers, threadTitle,
                  activeThreadId, user, sendingMessage, runsAccepted,
                  workflowFrame, nextId, actionPlans, registryVars,
                  serviceVars >>

\* the execution phase of a run with no attachment selected
ExecutionDone == \E i \in RunSlots : ExecutionStep(i, "none")

\* the execution phase of a run for which the operator selected a file
ExecutionWithAttachment ==
  \E i \in RunSlots, inbound \in { "uploaded", "failed" } :
    ExecutionStep(i, inbound)

\* a plausible slip: the alert is filed under the thread on screen
AddGovernanceAlertOnScreen(alerts, threadId, source, message, status) ==
  SliceTo(<< [ threadId |-> activeThreadId, source |-> source,
               status |-> status, message |-> message ] >> \o alerts,
          AlertCap)

\* addGovernanceAlert: one alert, prepended
AddGovernanceAlert(alerts, threadId, source, message, status) ==
  SliceTo(<< [ threadId |-> threadId, source |-> source, status |-> status,
               message |-> message ] >> \o alerts, AlertCap)

\* replies of runOfficerSingleReply: the fixed offline reply, which names a
\* risk, and a generated reply that names one
OfflineReply == << "o", "r" >>
RiskReply == << "r" >>

\* /위반|리스크|warning|금지|불가/i.test(reply), on texts in which "r" stands
\* for a word of the pattern
NamesRisk(reply) == "r" \in SeqRange(reply)

CheckerReturned(reply) == [ threw |-> FALSE, reply |-> reply ]
CheckerThrew == [ threw |-> TRUE, reply |-> << >> ]

\* what one checker of runGovernanceWatch meets, given the replies a
\* generation call may return
CheckerOutcomes(online, replies) ==
  IF online THEN { CheckerReturned(reply) : reply \in replies }
                   \cup { CheckerThrew }
  ELSE { CheckerReturned(OfflineReply) }

\* error.message of a checker call that threw
CheckerError == << "e" >>

\* the message runGovernanceWatch records: the reply, or the error message
AlertMessage(outcome) ==
  IF outcome.threw THEN CheckerError ELSE outcome.reply

\* a plausible slip: the status is always taken from the text
AlertStatusByTextOnly(outcome) ==
  IF NamesRisk(AlertMessage(outcome)) THEN "warning" ELSE "ok"

\* the status runGovernanceWatch records: by the reply's text, and warning
\* when the call threw
AlertStatus(outcome) ==
  IF outcome.threw \/ NamesRisk(outcome.reply) THEN "warning" ELSE "ok"

\* one iteration of the loop of runGovernanceWatch: the alert of one checker
CheckerAlert(alerts, threadId, checker, outcome) ==
  AddGovernanceAlert(alerts, threadId, checker, AlertMessage(outcome),
                     AlertStatus(outcome))

\* runGovernanceWatch: LEGAL-TAN, then HR-TAN
GovernanceWatchAlerts(alerts, threadId, legal, hr) ==
  CheckerAlert(CheckerAlert(alerts, threadId, "LEGAL-TAN", legal),
               threadId, "HR-TAN", hr)

\* a plausible slip: a record is kept only when the store took it
PersistReportCloudOnly(list, threadId, body, participants, assets, cloud) ==
  IF cloud
  THEN Append(list, [ threadId |-> threadId, body |-> body,
                      participants |-> participants, assets |-> assets,
                      source |-> "cloud" ])
  ELSE list

\* persistReport: the document store when signed in, the local list
\* otherwise
PersistReport(list, threadId, body, participants, assets, cloud) ==
  Append(list, [ threadId |-> threadId, body |-> body,
                 participants |-> participants, assets |-> assets,
                 source |-> IF cloud THEN "cloud" ELSE "local" ])

\* notes.map(item => `- ${item.memberId}: ${item.note}`), joined
RECURSIVE NoteLines(_, _)
NoteLines(notes, k) ==
  IF k > Len(notes) THEN << >>
  ELSE << "-", notes[k].memberId, ":" >> \o notes[k].note \o << "\n" >>
         \o NoteLines(notes, k + 1)

\* a plausible slip: the offline report leaves the directive out
OfflineReportTextOmitsTask(task, strategy, notes, poPlan, pmPlan) ==
  << "[OFFLINE]", "\n", "STRATEGY" >> \o strategy
    \o << "\n", "NOTES", "\n" >> \o NoteLines(notes, 1)
    \o << "\n", "PLANS", "\n", "PO-TAN" >> \o poPlan \o << "\n", "PM-TAN" >>
    \o pmPlan \o << "\n" >> \o NoteLines(notes, 1)

\* runFinalReport without a token: the header, the directive, the strategy,
\* the notes and the plans, joined
OfflineReportText(task, strategy, notes, poPlan, pmPlan) ==
  << "[OFFLINE]", "\n", "TASK" >> \o task \o << "\n", "STRATEGY" >>
    \o strategy
    \o << "\n", "NOTES", "\n" >> \o NoteLines(notes, 1)
    \o << "\n", "PLANS", "\n", "PO-TAN" >> \o poPlan \o << "\n", "PM-TAN" >>
    \o pmPlan \o << "\n" >> \o NoteLines(notes, 1)

\* the rest of the try block of startWorkflow after runFinalReport returned:
\* the two document uploads (failed names the ones whose upload threw, which
\* is caught), persistReport, persistOfficeMessage, the LEGAL-TAN and HR-TAN
\* checks of runGovernanceWatch, and the return to idle.  None of these
\* awaits throws into startWorkflow and none of the steps reads what another
\* handler writes; the document store is reachable whenever the operator is
\* signed in.  The finally block of handleSendChat follows for a chat run.
ReportTail(i, failed, legal, hr) ==
  LET r == runs[i]
      report == IF r.user
                THEN [ offline |-> FALSE, text |-> GeneratedText ]
                ELSE [ offline |-> TRUE,
                       text |-> OfflineReportText(r.task, r.strategy, r.notes,
                                                  r.poPlan, r.pmPlan) ]
      assets ==
        SelectSeq(<< "report", "transcript", "inbound" >>,
                  LAMBDA a :
                    /\ a \notin failed
                    /\ a = "transcript" => Len(r.notes) > 0
                    /\ a = "inbound" => r.inbound = "uploaded")
      failures ==
        (IF legal.threw THEN 1 ELSE 0) + (IF hr.threw THEN 1 ELSE 0)
  IN
  /\ r.pc = "finalReport"
  /\ failed # {} => r.user
  /\ callFailures + failures <= MaxCallFailures
  /\ callFailures' = callFailures + failures
  /\ dispatchCalls' = dispatchCalls + (IF r.user THEN 3 ELSE 0)
  /\ reports' =
       PersistReport(reports, r.threadId, report, r.participants, assets,
                     r.user)
  /\ messages' =
       PersistMessage(messages, r.threadId, "ATTENDANT-TAN", "report", r.user)
  /\ governanceAlerts' =
       GovernanceWatchAlerts(governanceAlerts, r.threadId, legal, hr)
  /\ activityLogs' =
       AppendLog(AppendLogs(activityLogs, r.threadId, "execution", 2),
                 r.threadId, "reporting")
  /\ phase' = "idle"
  /\ running' = FALSE
  /\ activeMembers' = << >>
  /\ agentActive' =
       setMembersToDesk(setMembersToDesk(agentActive, nonCeoMembers, FALSE),
                        << "CEO-HOBBY" >>, FALSE)
  /\ runs' = [ runs EXCEPT ![i].pc = "done", ![i].report = report,
                           ![i].failedDocuments = failed ]
  /\ sendingMessage' = IF r.entry = "chat" THEN FALSE ELSE sendingMessage
  /\ UNCHANGED << workflowError, threadTitle, activeThreadId, user,
                  runsAccepted, meetingTurns, workflowFailures, sharedVars,
                  registryVars, serviceVars >>

\* the reporting tail of a run whose document uploads succeed
ReportDone ==
  \E i \in RunSlots :
    \E legal \in CheckerOutcomes(runs[i].user, { GeneratedText }),
       hr \in CheckerOutcomes(runs[i].user, { GeneratedText }) :
      ReportTail(i, {}, legal, hr)

\* the reporting tail of a run for which the upload of the report document,
\* of the transcript document or of both throws
ReportDoneUploadThrows ==
  \E i \in RunSlots :
    \E failed \in (SUBSET { "report", "transcript" }) \ { {} } :
      \E legal \in CheckerOutcomes(runs[i].user, { GeneratedText }),
         hr \in CheckerOutcomes(runs[i].user, { GeneratedText }) :
        ReportTail(i, failed, legal, hr)

WorkflowInit ==
  /\ now = 1
  /\ RegistryStateInit
  /\ \E signedIn \in BOOLEAN : WorkflowStateInit(signedIn)
  /\ ProxyStateInit
  /\ ChatStateInit
  /\ WatcherStateInit
  /\ SessionStateInit

\* the steps of a run that an awaited call returning or throwing enables
RunStep ==
  \/ ChatRunRejected
  \/ ChatRunAccepted
  \/ RunThrows
  \/ BrainstormOffline
  \/ BrainstormParsed
  \/ BrainstormUnparsed
  \/ ManagementDone
  \/ CollaborationDone
  \/ ExecutionDone
  \/ ReportDone

WorkflowNext ==
  \/ FormSubmitAccepted
  \/ FormSubmitRejected
  \/ ChatRunSubmit
  \/ ChatRunRejected
  \/ ChatRunAccepted
  \/ RunThrows
  \/ BrainstormOffline
  \/ BrainstormParsed
  \/ BrainstormUnparsed
  \/ ManagementDone
  \/ CollaborationDone
  \/ ExecutionDone
  \/ ReportDone

SpecWorkflow == WorkflowInit /\ [][WorkflowNext]_vars

\* every awaited external call eventually returns or throws
SpecWorkflowFair == SpecWorkflow /\ WF_vars(RunStep)
(***************************************************************************)
(* Properties of the workflow orchestrator                                 *)
(***************************************************************************)
RunsInProgress == { i \in RunSlots : InProgress(i) }

\* C3: at most one workflow run is in progress at any time, whichever entry
\* point (directive form or chat "/run") issues the startWorkflow call.
AtMostOneRunInProgress == Cardinality(RunsInProgress) <= 1

\* a step in which a startWorkflow call returns at one of its two guards
RejectedCall ==
  \/ /\ workflowError' = "empty"
     /\ workflowError # "empty"
  \/ \E i \in RunSlots :
       /\ runs[i].pc = "chatPersist"
       /\ runs'[i].pc = "rejected"

\* C4: a rejected startWorkflow call (blank directive, or a run already in
\* progress) leaves phase, running flag, active participants, agent states,
\* thread title, plans, meeting turns and reports as they were, and makes no
\* dispatch call.
RejectedCallChangesNothing ==
  [][ RejectedCall =>
        UNCHANGED << phase, running, activeMembers, agentActive, threadTitle,
                     actionPlans, meetingTurns, reports, dispatchCalls >>
    ]_vars

\* a call was rejected at the re-entrancy guard while a run was in its
\* collaboration phase, and the run is still there
RejectedCallWitness ==
  \E i \in RunSlots, j \in RunSlots :
    /\ runs[i].pc = "rejected"
    /\ workflowError = "running"
    /\ runs[j].pc = "collaboration"
    /\ phase = "collaboration"
    /\ running
    /\ activeMembers # << >>

PhaseSuccessor ==
  [ idle |-> "brainstorming", brainstorming |-> "collaboration",
    collaboration |-> "execution", execution |-> "reporting",
    reporting |-> "idle" ]

\* C5: the phase takes the values brainstorming, collaboration, execution,
\* reporting in exactly that order, never backwards and never skipping, and
\* the only other transition is to idle.
PhaseOrder ==
  [][ phase' # phase =>
        \/ phase' = PhaseSuccessor[phase]
        \/ phase' = "idle"
    ]_vars

RunEnded(i) == runs[i].pc \in { "done", "failed" }

\* C6: every accepted run eventually ends, on the success path and on every
\* failure path, and when it has ended the phase is idle and the running flag
\* is cleared, provided every awaited call eventually returns or throws.
AcceptedRunReturnsToIdle ==
  \A i \in RunSlots :
    InProgress(i) ~> (RunEnded(i) /\ phase = "idle" /\ ~running)

\* a run that threw and a run that completed have both ended, idle
AcceptedRunWitness ==
  \E i \in RunSlots, j \in RunSlots :
    /\ runs[i].pc = "failed"
    /\ runs[j].pc = "done"
    /\ phase = "idle"
    /\ ~running

\* the state a run that threw leaves behind
CleanAfterThrow ==
  \A i \in RunSlots :
    (InProgress(i) /\ runs'[i].pc = "failed") =>
      /\ phase' = "idle"
      /\ ~running'
      /\ activeMembers' = << >>
      /\ agentActive' = {}
      /\ workflowError' = "failure"
      /\ workflowFailures' = workflowFailures + 1
      /\ activityLogs'[<< runs[i].threadId, "failure" >>] =
           activityLogs[<< runs[i].threadId, "failure" >>] + 1

\* a startWorkflow call with a non-blank directive that is made after a run
\* threw, when no run is in progress, is accepted
LaterCallAccepted ==
  \A i \in RunSlots :
    ( /\ runs[i].pc = "chatPersist"
      /\ runs'[i].pc # "chatPersist"
      /\ workflowFailures > 0
      /\ RunsInProgress = {}
      /\ ~running
      /\ Trim(runs[i].task) # << >> ) =>
      runs'[i].pc = "brainstorm"

\* C7: whenever a step of a run throws, the run ends with phase idle, running
\* false, no active participant markers, every agent inactive, one workflow
\* error and one failure log entry; a later startWorkflow call with a
\* non-empty directive is then accepted.
ThrowRecoversAndNextCallAccepted ==
  /\ [][CleanAfterThrow]_vars
  /\ [][LaterCallAccepted]_vars
(***************************************************************************)
(* Text dispatch: requestLlmText, the proxy and the provider functions     *)
(***************************************************************************)
\* the input field of a request: blank, or a prompt
DispatchInputs == { << " " >>, << "q" >> }

\* the Authorization header of a request: absent, without the "Bearer "
\* prefix, the prefix ("B") alone, the prefix with a token that does not
\* verify ("f"), the prefix with a token that verifies ("t")
Authorizations ==
  { << >>, << "t" >>, << "B" >>, << "B", "f" >>, << "B", "t" >> }

\* a plausible slip: the scheme of the header is not looked at
getAuthTokenAnyScheme(header) ==
  IF header = << >> THEN << >>
  ELSE IF Head(header) # "B" THEN header ELSE Tail(header)

\* getAuthToken: "" unless the header starts with "Bearer "
getAuthToken(header) ==
  IF header = << >> \/ Head(header) # "B" THEN << >> ELSE Tail(header)

\* admin.auth().verifyIdToken(token) returns (TRUE) or throws (FALSE)
verifyIdToken(token) == token = << "t" >>

\* String.prototype.toLowerCase, on the letters the secrets use
toLowerCase(s) ==
  [ k \in 1..Len(s) |->
      CASE s[k] = "N" -> "n"
        [] s[k] = "E" -> "e"
        [] s[k] = "D" -> "d"
        [] OTHER -> s[k] ]

DISABLED_SECRET_VALUES ==
  { << "d", "i", "s", "a", "b", "l", "e", "d" >>,
    << "m", "i", "s", "s", "i", "n", "g" >>,
    << "n", "o", "t", "-", "c", "o", "n", "f", "i", "g", "u", "r", "e", "d" >>,
    << "n", "o", "n", "e" >> }

\* a plausible slip: the value is compared as it is
isConfiguredSecretVerbatim(value) ==
  IF value = << >> THEN FALSE
  ELSE value \notin DISABLED_SECRET_VALUES

\* isConfiguredSecret: a value is present and, trimmed and lower-cased, is
\* not one of the placeholders
isConfiguredSecret(value) ==
  IF value = << >> THEN FALSE
  ELSE toLowerCase(Trim(value)) \notin DISABLED_SECRET_VALUES

\* the value of the selected provider's secret: not set, a placeholder, a
\* placeholder in another spelling, a key, a key that starts like a
\* placeholder
SecretValues ==
  { << >>,
    << "n", "o", "n", "e" >>,
    << " ", "N", "o", "n", "E", " " >>,
    << "D", "i", "s", "a", "b", "l", "e", "d" >>,
    << "n", "o", "n", "e", "x" >>,
    << "s", "k" >> }

\* what a provider backend does with one request: a response with ok status
\* and a text, a response with an error status, or a fetch that throws
BackendResponses ==
  { [ kind |-> "ok", text |-> << "a", " " >> ],
    [ kind |-> "ok", text |-> << " " >> ],
    [ kind |-> "notOk", text |-> << >> ],
    [ kind |-> "threw", text |-> << >> ] }

\* the same for an image request: the text field holds the inline image data
\* of the first candidate, empty when the response has none
ImageResponses ==
  { [ kind |-> "ok", text |-> << "i" >> ],
    [ kind |-> "ok", text |-> << >> ],
    [ kind |-> "notOk", text |-> << >> ],
    [ kind |-> "threw", text |-> << >> ] }

BackendRequest(tools, response) ==
  [ tools |-> tools, kind |-> response.kind, text |-> response.text ]

\* what a provider function hands to handleLlmText: the text it returns, or
\* the error it throws, with the requests it sent
Returned(requests, text) ==
  [ requests |-> requests, threw |-> FALSE, text |-> text ]
Thrown(requests) ==
  [ requests |-> requests, threw |-> TRUE, text |-> << >> ]

\* a plausible slip: the text of the response is returned as it is read
ReadTextUnchecked(requests, response) ==
  Returned(requests, Trim(response.text))

\* the tail of every provider function: the text is read from the response
\* and trimmed; an empty text is an error
ReadText(requests, response) ==
  IF Trim(response.text) = << >> THEN Thrown(requests)
  ELSE Returned(requests, Trim(response.text))

\* a plausible slip: the retry is issued whether or not the call asked for
\* web search
requestOpenAITextRetriesAlways(body, first, second) ==
  IF ~isConfiguredSecret(body.secret) THEN Thrown(<< >>)
  ELSE LET one == << BackendRequest(body.useWebSearch, first) >>
           two == Append(one, BackendRequest(FALSE, second))
       IN IF first.kind = "threw" THEN Thrown(one)
          ELSE IF first.kind = "notOk"
               THEN IF second.kind = "ok" THEN ReadText(two, second)
                    ELSE Thrown(two)
               ELSE ReadText(one, first)

\* requestOpenAIText: the web_search_preview tool is attached when the call
\* asks for web search; a first response that is not ok is retried once
\* without the tool when the call asked for web search
requestOpenAIText(body, first, second) ==
  IF ~isConfiguredSecret(body.secret) THEN Thrown(<< >>)
  ELSE LET one == << BackendRequest(body.useWebSearch, first) >>
           two == Append(one, BackendRequest(FALSE, second))
       IN IF first.kind = "threw" THEN Thrown(one)
          ELSE IF first.kind = "notOk"
               THEN IF body.useWebSearch
                    THEN IF second.kind = "ok" THEN ReadText(two, second)
                         ELSE Thrown(two)
                    ELSE Thrown(one)
               ELSE ReadText(one, first)

\* requestAnthropicText and requestXAIText: one request, never with a tool
requestPlainText(body, first) ==
  IF ~isConfiguredSecret(body.secret) THEN Thrown(<< >>)
  ELSE LET one == << BackendRequest(FALSE, first) >>
       IN IF first.kind = "ok" THEN ReadText(one, first) ELSE Thrown(one)

\* requestGeminiText: the google_search tool is attached when the call asks
\* for web search; one request
requestGeminiText(body, first) ==
  IF ~isConfiguredSecret(body.secret) THEN Thrown(<< >>)
  ELSE LET one == << BackendRequest(body.useWebSearch, first) >>
       IN IF first.kind = "ok" THEN ReadText(one, first) ELSE Thrown(one)

\* requestGeminiImage: the google_search tool is attached when the call asks
\* for search; one request; a response without image data is an error
requestGeminiImage(body, first) ==
  IF ~isConfiguredSecret(body.secret) THEN Thrown(<< >>)
  ELSE LET one == << BackendRequest(body.useWebSearch, first) >>
       IN IF first.kind # "ok" \/ first.text = << >> THEN Thrown(one)
          ELSE Returned(one, first.text)

proxyFrame ==
  << sharedVars, registryVars, workflowVars, watcherVars, collabVars,
     chatVars >>

\* a POST arrives at a route of the proxy: sent by requestLlmText or by
\* generateGeminiImage (which attach a header only when they hold a token),
\* or by any other client
PostArrives(route, provider, useWebSearch, input, authorization, secret) ==
  /\ call.pc \in { "idle", "done" }
  /\ callsDone < MaxCalls
  /\ call' = [ NoCall EXCEPT !.pc = "auth", !.route = route,
                             !.provider = provider,
                             !.useWebSearch = useWebSearch,
                             !.input = input,
                             !.authorization = authorization,
                             !.secret = secret ]
  /\ backendRequests' = << >>
  /\ UNCHANGED << callsDone, proxyFrame >>

\* requestLlmText: the client posts the request to the proxy
RequestLlmTextSend ==
  \E provider \in Providers, useWebSearch \in BOOLEAN,
     input \in DispatchInputs, authorization \in Authorizations,
     secret \in SecretValues :
    PostArrives("text", provider, useWebSearch, input, authorization, secret)

\* generateGeminiImage: the client posts the request to the proxy
GenerateGeminiImageSend ==
  \E useSearch \in BOOLEAN, prompt \in DispatchInputs,
     authorization \in Authorizations, secret \in SecretValues :
    PostArrives("image", "gemini", useSearch, prompt, authorization, secret)

\* healthHandler: no middleware in front of it; it reports which secrets are
\* configured
HealthRequest ==
  \E authorization \in Authorizations, secret \in SecretValues :
    /\ call.pc \in { "idle", "done" }
    /\ callsDone < MaxCalls
    /\ call' = [ NoCall EXCEPT !.pc = "done", !.route = "health",
                               !.authorization = authorization,
                               !.secret = secret, !.status = 200,
                               !.outcome = "health",
                               !.lookedUp = TRUE ]
    /\ backendRequests' = << >>
    /\ callsDone' = callsDone + 1
    /\ UNCHANGED proxyFrame

\* requireFirebaseAuth: 401 when the token is missing or does not verify
RequireFirebaseAuth ==
  /\ call.pc = "auth"
  /\ call' = IF /\ getAuthToken(call.authorization) # << >>
                /\ verifyIdToken(getAuthToken(call.authorization))
             THEN [ call EXCEPT !.pc = "handler" ]
             ELSE [ call EXCEPT !.pc = "responded", !.status = 401 ]
  /\ UNCHANGED << backendRequests, callsDone, proxyFrame >>

\* handleLlmText: 400 when the input is blank
HandleLlmTextBlank ==
  /\ call.pc = "handler"
  /\ call.route = "text"
  /\ Trim(call.input) = << >>
  /\ call' = [ call EXCEPT !.pc = "responded", !.status = 400,
                           !.validated = TRUE ]
  /\ UNCHANGED << backendRequests, callsDone, proxyFrame >>

\* handleLlmText and handleGeminiImage: the response for what the provider
\* function handed back
Respond(result) ==
  /\ backendRequests' = result.requests
  /\ call' = IF result.threw
             THEN [ call EXCEPT !.pc = "responded", !.status = 500,
                                !.validated = TRUE, !.lookedUp = TRUE ]
             ELSE [ call EXCEPT !.pc = "responded", !.status = 200,
                                !.validated = TRUE, !.lookedUp = TRUE,
                                !.text = result.text ]
  /\ UNCHANGED << callsDone, proxyFrame >>

HandleLlmTextOpenAI ==
  \E first \in BackendResponses, second \in BackendResponses :
    /\ call.pc = "handler"
    /\ call.route = "text"
    /\ Trim(call.input) # << >>
    /\ call.provider = "openai"
    /\ Respond(requestOpenAIText(call, first, second))

HandleLlmTextAnthropic ==
  \E first \in BackendResponses :
    /\ call.pc = "handler"
    /\ call.route = "text"
    /\ Trim(call.input) # << >>
    /\ call.provider = "anthropic"
    /\ Respond(requestPlainText(call, first))

HandleLlmTextXAI ==
  \E first \in BackendResponses :
    /\ call.pc = "handler"
    /\ call.route = "text"
    /\ Trim(call.input) # << >>
    /\ call.provider = "xai"
    /\ Respond(requestPlainText(call, first))

HandleLlmTextGemini ==
  \E first \in BackendResponses :
    /\ call.pc = "handler"
    /\ call.route = "text"
    /\ Trim(call.input) # << >>
    /\ call.provider = "gemini"
    /\ Respond(requestGeminiText(call, first))

\* handleGeminiImage: 400 when the prompt is blank
HandleGeminiImageBlank ==
  /\ call.pc = "handler"
  /\ call.route = "image"
  /\ Trim(call.input) = << >>
  /\ call' = [ call EXCEPT !.pc = "responded", !.status = 400,
                           !.validated = TRUE ]
  /\ UNCHANGED << backendRequests, callsDone, proxyFrame >>

HandleGeminiImage ==
  \E first \in ImageResponses :
    /\ call.pc = "handler"
    /\ call.route = "image"
    /\ Trim(call.input) # << >>
    /\ Respond(requestGeminiImage(call, first))

\* requestLlmText, after the fetch: it throws when the status is not ok or
\* the trimmed text of the payload is empty, and returns the trimmed text
\* otherwise
ReadProxyPayload(status, text) ==
  IF status = 200 /\ Trim(text) # << >>
  THEN [ outcome |-> "text", returned |-> Trim(text) ]
  ELSE [ outcome |-> "error", returned |-> << >> ]

\* requestLlmText: the client reads the proxy's response
RequestLlmTextReceive ==
  /\ call.pc = "responded"
  /\ call.route = "text"
  /\ call' =
       [ call EXCEPT !.pc = "done",
                     !.outcome = ReadProxyPayload(call.status, call.text).outcome,
                     !.returned = ReadProxyPayload(call.status, call.text).returned ]
  /\ callsDone' = callsDone + 1
  /\ UNCHANGED << backendRequests, proxyFrame >>

\* generateGeminiImage: the client reads the proxy's response; it throws when
\* the status is not ok and returns the image of the payload otherwise
GenerateGeminiImageReceive ==
  /\ call.pc = "responded"
  /\ call.route = "image"
  /\ call' =
       IF call.status = 200 /\ call.text # << >>
       THEN [ call EXCEPT !.pc = "done", !.outcome = "image",
                          !.returned = call.text ]
       ELSE [ call EXCEPT !.pc = "done", !.outcome = "error" ]
  /\ callsDone' = callsDone + 1
  /\ UNCHANGED << backendRequests, proxyFrame >>

\* calls are dispatched only for a signed-in operator
DispatchInit ==
  /\ now = 1
  /\ RegistryStateInit
  /\ WorkflowStateInit(TRUE)
  /\ ProxyStateInit
  /\ ChatStateInit
  /\ WatcherStateInit
  /\ SessionStateInit

DispatchNext ==
  \/ RequestLlmTextSend
  \/ GenerateGeminiImageSend
  \/ HealthRequest
  \/ RequireFirebaseAuth
  \/ HandleLlmTextBlank
  \/ HandleLlmTextOpenAI
  \/ HandleLlmTextAnthropic
  \/ HandleLlmTextXAI
  \/ HandleLlmTextGemini
  \/ HandleGeminiImageBlank
  \/ HandleGeminiImage
  \/ RequestLlmTextReceive
  \/ GenerateGeminiImageReceive

SpecDispatch == DispatchInit /\ [][DispatchNext]_vars

(***************************************************************************)
(* Properties of the text dispatch                                         *)
(***************************************************************************)
\* the call went through the proxy's checks to a provider function that
\* holds a credential
ReachedBackend ==
  /\ call.authorization = << "B", "t" >>
  /\ Trim(call.input) # << >>
  /\ isConfiguredSecret(call.secret)

CallFailed == call.pc = "done" /\ call.outcome = "error"

\* at most two requests; a second one only after a first one with the tool
\* that was answered with an error status, and without the tool
AtMostOneRetryWithoutTool ==
  /\ Len(backendRequests) <= 2
  /\ Len(backendRequests) = 2 =>
       /\ call.useWebSearch
       /\ backendRequests[1].tools
       /\ backendRequests[1].kind = "notOk"
       /\ ~backendRequests[2].tools

\* C8 (as amended): for every provider and every text dispatch call at most
\* two backend requests are made, a second one only when the call asked for
\* web search and the first request failed, and without the augmentation; a
\* failing call that did not ask for web search makes at most one backend
\* request: exactly one when it reaches the provider with a credential, none
\* when it is turned away before (token, blank input, missing credential).
BoundedFallback ==
  /\ AtMostOneRetryWithoutTool
  /\ (CallFailed /\ ~call.useWebSearch) =>
       Len(backendRequests) = (IF ReachedBackend THEN 1 ELSE 0)

\* an OpenAI call with web search whose first request failed, whose retry
\* without the tool succeeded, and whose text was returned
BoundedFallbackWitness ==
  /\ call.pc = "done"
  /\ call.provider = "openai"
  /\ call.useWebSearch
  /\ Len(backendRequests) = 2
  /\ backendRequests[1].tools
  /\ ~backendRequests[2].tools
  /\ call.outcome = "text"

\* C8 as stated: a failing call that did not ask for web search makes exactly
\* one backend request
FailingPlainCallMakesOneRequest ==
  /\ AtMostOneRetryWithoutTool
  /\ (CallFailed /\ ~call.useWebSearch) => Len(backendRequests) = 1

\* C9: for OpenAI and Gemini, a call asking for web search whose first
\* attempt fails is retried exactly once without the augmentation before an
\* error is surfaced, and the text of a successful retry is returned.
RetryOnceWithoutAugmentation ==
  ( /\ call.pc = "done"
    /\ call.provider \in { "openai", "gemini" }
    /\ call.useWebSearch
    /\ Len(backendRequests) >= 1
    /\ backendRequests[1].kind = "notOk" ) =>
    /\ Len(backendRequests) = 2
    /\ ~backendRequests[2].tools
    /\ ( /\ backendRequests[2].kind = "ok"
         /\ Trim(backendRequests[2].text) # << >> ) =>
         /\ call.outcome = "text"
         /\ call.returned = Trim(backendRequests[2].text)
(***************************************************************************)
(* Governance watcher: the effect over the active thread's recent activity *)
(***************************************************************************)
Cooldown == 45000
DebounceRunning == 2500
DebounceIdle == 7000
MessageWindow == 4
MeetingWindow == 6

\* Array.prototype.slice(-n)
SliceLast(list, n) ==
  IF Len(list) <= n THEN list
  ELSE SubSeq(list, Len(list) - n + 1, Len(list))

\* visibleMessages: the messages of the thread, oldest first; a message is
\* identified by its position in the append-only list
visibleMessages(list, threadId) ==
  SelectSeq([ i \in 1..Len(list) |->
                [ id |-> i, senderId |-> list[i].senderId,
                  threadId |-> list[i].threadId ] ],
            LAMBDA m : m.threadId = threadId)

\* visibleMeetingTurns: the turns of the thread, in the order of the list
visibleMeetingTurns(list, threadId) ==
  SelectSeq(list, LAMBDA turn : turn.threadId = threadId)

messageSlice(list, threadId) ==
  SliceLast(visibleMessages(list, threadId), MessageWindow)

meetingSlice(list, threadId) ==
  SliceLast(visibleMeetingTurns(list, threadId), MeetingWindow)

\* the signature the effect computes
Signature(threadId, messageList, turnList) ==
  [ threadId |-> threadId,
    messages |-> [ k \in 1..Len(messageSlice(messageList, threadId)) |->
                     [ id |-> messageSlice(messageList, threadId)[k].id,
                       senderId |->
                         messageSlice(messageList, threadId)[k].senderId ] ],
    meetings |-> [ k \in 1..Len(meetingSlice(turnList, threadId)) |->
                     [ id |-> meetingSlice(turnList, threadId)[k].id,
                       speakerId |->
                         meetingSlice(turnList, threadId)[k].speakerId ] ] ]

\* a dependency of the effect changed: React runs the cleanup the last run
\* returned (clearTimeout, polling cleared), then the effect with the values
\* of the new render
GovernanceEffect(runningN, threadN, messagesN, turnsN) ==
  LET polling == IF governanceCleanup THEN FALSE ELSE governancePollingRef
      signature == Signature(threadN, messagesN, turnsN)
      observes ==
        /\ user
        /\ ~ ( /\ messageSlice(messagesN, threadN) = << >>
               /\ meetingSlice(turnsN, threadN) = << >> )
      arms ==
        /\ observes
        /\ signature # governanceSignatureRef
        /\ ~polling
        /\ now - governanceLastRunRef >= Cooldown
  IN
  /\ triggers' =
       IF observes
       THEN Append(triggers, [ signature |-> signature, at |-> now ])
       ELSE triggers
  /\ governancePollingRef' = IF arms THEN TRUE ELSE polling
  /\ governanceSignatureRef' =
       IF arms THEN signature ELSE governanceSignatureRef
  /\ governanceTimer' =
       IF arms
       THEN [ armed |-> TRUE, signature |-> signature, threadId |-> threadN,
              due |-> now + (IF runningN THEN DebounceRunning
                             ELSE DebounceIdle) ]
       ELSE IF governanceCleanup THEN NoTimer ELSE governanceTimer
  /\ governanceCleanup' = arms

watcherFrame ==
  << nextId, actionPlans, registryVars, proxyVars, workflowError, agentActive,
     activeMembers, activityLogs, meetingTurns, reports, threadTitle, user,
     sendingMessage, runs, dispatchCalls, callFailures, runsAccepted,
     workflowFailures, collabVars, chatVars >>

\* a chat message of the operator is persisted in the active thread
OperatorMessageArrives ==
  /\ Len(messages) < MaxWatchedMessages
  /\ Len(triggers) < MaxTriggers
  /\ messages' =
       PersistMessage(messages, activeThreadId, "CEO-HOBBY", "chat", user)
  /\ GovernanceEffect(running, activeThreadId, messages', meetingTurns)
  /\ UNCHANGED << now, running, phase, activeThreadId, governanceAlerts,
                  governanceLastRunRef, auditsInFlight, audits,
                  watcherFrame >>

\* a workflow run starts: the running flag is raised
WatchedRunStarts ==
  /\ ~running
  /\ Len(triggers) < MaxTriggers
  /\ running' = TRUE
  /\ phase' = "brainstorming"
  /\ GovernanceEffect(TRUE, activeThreadId, messages, meetingTurns)
  /\ UNCHANGED << now, messages, activeThreadId, governanceAlerts,
                  governanceLastRunRef, auditsInFlight, audits,
                  watcherFrame >>

\* a workflow run ends: the running flag is cleared
WatchedRunEnds ==
  /\ running
  /\ Len(triggers) < MaxTriggers
  /\ running' = FALSE
  /\ phase' = "idle"
  /\ GovernanceEffect(FALSE, activeThreadId, messages, meetingTurns)
  /\ UNCHANGED << now, messages, activeThreadId, governanceAlerts,
                  governanceLastRunRef, auditsInFlight, audits,
                  watcherFrame >>

\* the operator selects another thread
SelectThread ==
  \E t \in Threads :
    /\ t # activeThreadId
    /\ Len(triggers) < MaxTriggers
    /\ activeThreadId' = t
    /\ GovernanceEffect(running, t, messages, meetingTurns)
    /\ UNCHANGED << now, running, phase, messages, governanceAlerts,
                    governanceLastRunRef, auditsInFlight, audits,
                    watcherFrame >>

\* the timeout of the effect fires: runGovernanceWatch is called
GovernanceTimerFires ==
  /\ governanceTimer.armed
  /\ now' = IF now < governanceTimer.due THEN governanceTimer.due ELSE now
  /\ governanceTimer' = NoTimer
  /\ auditsInFlight' =
       Append(auditsInFlight, [ signature |-> governanceTimer.signature,
                                threadId |-> governanceTimer.threadId ])
  /\ audits' =
       Append(audits, [ signature |-> governanceTimer.signature,
                        at |-> now' ])
  /\ UNCHANGED << running, phase, messages, activeThreadId, governanceAlerts,
                  governancePollingRef, governanceLastRunRef,
                  governanceSignatureRef, governanceCleanup, triggers,
                  watcherFrame >>

\* runGovernanceWatch settles: both checkers have reported, then the finally
\* callback of the effect runs
GovernanceAuditSettles ==
  \E legal \in CheckerOutcomes(TRUE, { GeneratedText, RiskReply }),
     hr \in CheckerOutcomes(TRUE, { GeneratedText, RiskReply }) :
    /\ auditsInFlight # << >>
    /\ auditsInFlight' = Tail(auditsInFlight)
    /\ governanceAlerts' =
         GovernanceWatchAlerts(governanceAlerts,
                               Head(auditsInFlight).threadId, legal, hr)
    /\ governanceLastRunRef' = now
    /\ governancePollingRef' = FALSE
    /\ UNCHANGED << now, running, phase, messages, activeThreadId,
                    governanceSignatureRef, governanceTimer,
                    governanceCleanup, triggers, audits, watcherFrame >>

\* the cooldown elapses with no timeout pending
CooldownElapses ==
  /\ ~governanceTimer.armed
  /\ now < Cooldown * (1 + MaxCooldowns)
  /\ now' = now + Cooldown
  /\ UNCHANGED << running, phase, messages, activeThreadId, governanceAlerts,
                  watcherVars, watcherFrame >>

\* a signed-in operator; Date.now() is more than the cooldown past the
\* initial value 0 of governanceLastRunRef
WatcherInit ==
  /\ now = Cooldown
  /\ RegistryStateInit
  /\ WorkflowStateInit(TRUE)
  /\ ProxyStateInit
  /\ ChatStateInit
  /\ WatcherStateInit
  /\ SessionStateInit

WatcherNext ==
  \/ OperatorMessageArrives
  \/ WatchedRunStarts
  \/ WatchedRunEnds
  \/ SelectThread
  \/ GovernanceTimerFires
  \/ GovernanceAuditSettles
  \/ CooldownElapses

SpecWatcher == WatcherInit /\ [][WatcherNext]_vars

(***************************************************************************)
(* Properties of the governance watcher                                    *)
(***************************************************************************)
TriggersOf(signature) ==
  { i \in 1..Len(triggers) : triggers[i].signature = signature }

AuditsOf(signature) ==
  { i \in 1..Len(audits) : audits[i].signature = signature }

\* no timeout is pending and no audit is running
WatcherQuiescent ==
  /\ ~governanceTimer.armed
  /\ auditsInFlight = << >>

\* C10: two observer triggers carrying an identical fingerprint within the
\* cooldown window produce exactly one audit execution: never two, and one
\* once nothing is pending any more.
DedupExactlyOneAudit ==
  \A i \in 1..Len(triggers), j \in 1..Len(triggers) :
    ( /\ i < j
      /\ triggers[i].signature = triggers[j].signature
      /\ \A k \in TriggersOf(triggers[i].signature) :
           triggers[k].at - triggers[i].at < Cooldown ) =>
      /\ Cardinality(AuditsOf(triggers[i].signature)) <= 1
      /\ WatcherQuiescent =>
           Cardinality(AuditsOf(triggers[i].signature)) = 1
\* C11: at no time are two governance audits (runGovernanceWatch executions)
\* in flight together, whatever the interleaving of the observer's effect
\* runs, cleanups, timeouts and settling audits.
SingleFlight == Len(auditsInFlight) <= 1

\* a step in which the timeout of the observer calls runGovernanceWatch
AuditStarts == Len(audits') = Len(audits) + 1

\* C12: an observer-triggered audit never starts less than the cooldown after
\* the completion of the previous observer-triggered audit, which
\* governanceLastRunRef records.
CooldownRespected ==
  [][AuditStarts => now' - governanceLastRunRef >= Cooldown]_vars
(***************************************************************************)
(* Collaboration session runner: runCollaboration, one turn at a time      *)
(***************************************************************************)
\* a plausible slip: the slice starts at the second participant
selectedSkipsFirst(participants) ==
  IF Len(participants) <= 1 THEN << >>
  ELSE SubSeq(participants, 2,
              IF Len(participants) < CollaborationLimit
              THEN Len(participants) ELSE CollaborationLimit)

\* participants.slice(0, 8)
selectedOf(participants) == SliceTo(participants, CollaborationLimit)

\* the management context startWorkflow joins from the two plans
ManagementContextOf(poPlan, pmPlan) ==
  << "[PO-TAN]", "\n" >> \o poPlan \o << "\n", "\n", "[PM-TAN]", "\n" >>
    \o pmPlan

\* the initial value of priorDialogue
PriorDialogueSeed(managementContext) ==
  IF managementContext # << >>
  THEN << "PO/PM", "\n" >> \o managementContext \o << "\n", "\n" >>
  ELSE << >>

\* `${member.id}: ${note}\n\n`
DialogueEntry(memberId, note) ==
  << memberId, ":", " " >> \o note \o << "\n", "\n" >>

\* the input of the generation call of one speaker: the six parts, joined
CollaborationInput(task, strategy, managementContext, priorDialogue) ==
  << "CEO" >> \o task \o << "\n", "\n", "STRATEGY" >> \o strategy
    \o << "\n", "\n", "PO/PM" >>
    \o (IF managementContext # << >> THEN managementContext ELSE << "-" >>)
    \o << "\n", "\n", "PRIOR", "\n", "\n" >>
    \o (IF priorDialogue # << >> THEN priorDialogue ELSE << "-" >>)
    \o << "\n", "\n", "TURN" >>

\* the participant lists startWorkflow can pass
SessionParticipantLists ==
  { CollaborationMembersOf(parsed) : parsed \in ParsedParticipantLists }

\* the directive of the run the session belongs to
SessionTask == << "t" >>

\* what the session leaves alone
sessionFrame ==
  << now, actionPlans, registryVars, running, phase, workflowError,
     agentActive, activeMembers, reports, messages, governanceAlerts,
     threadTitle, activeThreadId, user, sendingMessage, runs, runsAccepted,
     workflowFailures, proxyVars, watcherVars, chatVars >>

\* a plausible slip: priorDialogue is replaced by the last entry
FinalizeTurnForgetsEarlier(note, threw) ==
  LET memberId == session.selected[session.index] IN
  /\ session' =
       [ session EXCEPT
           !.pc = "turn",
           !.index = @ + 1,
           !.notes = Append(@, [ memberId |-> memberId, note |-> note ]),
           !.transcript = Append(@, [ speakerId |-> memberId,
                                      text |-> note ]),
           !.failed = IF threw THEN @ \cup { session.index } ELSE @,
           !.priorDialogue = DialogueEntry(memberId, note) ]
  /\ meetingTurns' =
       AppendTurn(meetingTurns, nextId, session.threadId, "collaboration",
                  memberId, note, "workflow")
  /\ nextId' = nextId + 1
  /\ activityLogs' = AppendLog(activityLogs, session.threadId, "collaboration")

\* the end of one iteration: the note is pushed, the turn is recorded and
\* appended to the meeting turns, and the entry is added to priorDialogue
FinalizeTurn(note, threw) ==
  LET memberId == session.selected[session.index] IN
  /\ session' =
       [ session EXCEPT
           !.pc = "turn",
           !.index = @ + 1,
           !.notes = Append(@, [ memberId |-> memberId, note |-> note ]),
           !.transcript = Append(@, [ speakerId |-> memberId,
                                      text |-> note ]),
           !.failed = IF threw THEN @ \cup { session.index } ELSE @,
           !.priorDialogue = @ \o DialogueEntry(memberId, note) ]
  /\ meetingTurns' =
       AppendTurn(meetingTurns, nextId, session.threadId, "collaboration",
                  memberId, note, "workflow")
  /\ nextId' = nextId + 1
  /\ activityLogs' = AppendLog(activityLogs, session.threadId, "collaboration")
\* getMember(memberId) finds no member: the loop continues with the next id
SkipTurn ==
  /\ session' = [ session EXCEPT !.index = @ + 1 ]
  /\ UNCHANGED << meetingTurns, nextId, activityLogs >>

\* an iteration without a token: the fixed offline note
TurnOffline ==
  /\ session.pc = "turn"
  /\ session.index <= Len(session.selected)
  /\ ~session.online
  /\ IF getMember(session.selected[session.index])
     THEN FinalizeTurn(OfflineNote, FALSE)
     ELSE SkipTurn
  /\ UNCHANGED << dispatchCalls, callFailures, sessionFrame >>

\* an iteration with a token, up to the await of requestLlmText
TurnRequest ==
  /\ session.pc = "turn"
  /\ session.index <= Len(session.selected)
  /\ session.online
  /\ IF getMember(session.selected[session.index])
     THEN /\ session' =
               [ session EXCEPT
                   !.pc = "awaiting",
                   !.inputs =
                     Append(@, [ memberId |-> session.selected[session.index],
                                 finalized |-> Len(session.notes),
                                 text |->
                                   CollaborationInput(
                                     session.task, session.strategy,
                                     session.managementContext,
                                     session.priorDialogue) ]) ]
          /\ dispatchCalls' = dispatchCalls + 1
          /\ UNCHANGED << meetingTurns, nextId, activityLogs >>
     ELSE /\ SkipTurn
          /\ UNCHANGED dispatchCalls
  /\ UNCHANGED << callFailures, sessionFrame >>

\* requestLlmText returned: its text is the note
TurnReturns ==
  \E text \in GeneratedTexts :
    /\ session.pc = "awaiting"
    /\ FinalizeTurn(text, FALSE)
    /\ UNCHANGED << dispatchCalls, callFailures, sessionFrame >>

\* a plausible slip: the failure of one call ends the session
TurnThrowsEndsSession ==
  /\ session.pc = "awaiting"
  /\ session' = [ session EXCEPT !.pc = "returned",
                                 !.failed = @ \cup { session.index } ]
  /\ callFailures' = callFailures + 1
  /\ UNCHANGED << meetingTurns, nextId, activityLogs, dispatchCalls,
                  sessionFrame >>

\* requestLlmText threw: the catch block substitutes the failure note
TurnThrows ==
  /\ session.pc = "awaiting"
  /\ FinalizeTurn(FailureNote, TRUE)
  /\ callFailures' = callFailures + 1
  /\ UNCHANGED << dispatchCalls, sessionFrame >>

\* the loop is over: runCollaboration returns the session
SessionReturns ==
  /\ session.pc = "turn"
  /\ session.index > Len(session.selected)
  /\ session' = [ session EXCEPT !.pc = "returned" ]
  /\ UNCHANGED << meetingTurns, nextId, activityLogs, dispatchCalls,
                  callFailures, sessionFrame >>
\* what runBrainstorm can have returned to the run
BrainstormPlans(online) ==
  IF online
  THEN { [ response |-> text, strategy |-> ParsedStrategy,
           participants |-> parsed ] :
           text \in { t \in BrainstormResponses : tryParseJson(t) # NoJson },
           parsed \in ParsedParticipantLists }
       \cup { [ response |-> text, strategy |-> text,
                participants |-> DEFAULT_COLLABORATION_TEAM ] :
                text \in { t \in BrainstormResponses :
                             tryParseJson(t) = NoJson } }
  ELSE { [ response |-> << >>, strategy |-> OfflineStrategy,
           participants |-> DEFAULT_COLLABORATION_TEAM ] }

\* the component when the first run, submitted from the directive form in
\* thread 1, calls runCollaboration: startWorkflow has recorded the
\* brainstorm turn and the two management turns and plans
AtCollaboration(online, plan) ==
  LET members == CollaborationMembersOf(plan.participants)
      poPlan == IF online THEN GeneratedText ELSE OfflinePoPlan
      pmPlan == IF online THEN GeneratedText ELSE OfflinePmPlan
  IN
  /\ now = 2
  /\ nextId = 6
  /\ actionPlans =
       upsertActionPlan(
         upsertActionPlan(<< >>, "PO-TAN", poPlan, "management", 1, 2, 4),
         "PM-TAN", pmPlan, "management", 1, 2, 5)
  /\ executingPlanId = 0
  /\ executingPlan = NoPlan
  /\ issued = [ k \in Keys |-> NoUpsert ]
  /\ upsertCount = 0
  /\ execCount = 0
  /\ execCalls = [ inFlight |-> 0, rejected |-> 0 ]
  /\ running = TRUE
  /\ phase = "collaboration"
  /\ workflowError = ""
  /\ agentActive = SeqRange(members)
  /\ activeMembers = members
  /\ activityLogs =
       AppendLogs(AppendLogs([ k \in Threads \X LogKinds |-> 0 ], 1,
                             "brainstorming", 2),
                  1, "collaboration", 2)
  /\ meetingTurns =
       AppendTurn(
         AppendTurn(
           AppendTurn(<< >>, 1, 1, "brainstorming", "ATTENDANT-TAN",
                      plan.strategy, "workflow"),
           2, 1, "collaboration", "PO-TAN", poPlan, "workflow"),
         3, 1, "collaboration", "PM-TAN", pmPlan, "workflow")
  /\ reports = << >>
  /\ messages = << >>
  /\ governanceAlerts = << >>
  /\ threadTitle =
       [ t \in Threads |->
           IF t = 1 THEN TitleOfTask(SessionTask) ELSE DefaultThreadTitle ]
  /\ activeThreadId = 1
  /\ user = online
  /\ sendingMessage = FALSE
  /\ runs =
       [ i \in RunSlots |->
           IF i = 1
           THEN [ NoRun EXCEPT !.pc = "collaboration", !.entry = "form",
                               !.task = SessionTask, !.threadId = 1,
                               !.user = online, !.participants = members,
                               !.response = plan.response,
                               !.brainstormParticipants = plan.participants,
                               !.strategy = plan.strategy,
                               !.poPlan = poPlan, !.pmPlan = pmPlan ]
           ELSE NoRun ]
  /\ dispatchCalls = IF online THEN 3 ELSE 0
  /\ callFailures = 0
  /\ runsAccepted = 1
  /\ workflowFailures = 0
  /\ ProxyStateInit
  /\ ChatStateInit
  /\ WatcherStateInit

\* runCollaboration has been called and has read the token
CollaborationInit ==
  \E online \in BOOLEAN :
    \E plan \in BrainstormPlans(online) :
      LET members == CollaborationMembersOf(plan.participants)
          managementContext ==
            ManagementContextOf(
              IF online THEN GeneratedText ELSE OfflinePoPlan,
              IF online THEN GeneratedText ELSE OfflinePmPlan)
      IN
      /\ AtCollaboration(online, plan)
      /\ session =
           [ NoSession EXCEPT
               !.pc = "turn", !.online = online, !.threadId = 1,
               !.task = SessionTask, !.strategy = plan.strategy,
               !.managementContext = managementContext,
               !.participants = members,
               !.selected = selectedOf(members),
               !.index = 1,
               !.priorDialogue = PriorDialogueSeed(managementContext) ]

CollaborationNext ==
  \/ TurnOffline
  \/ TurnRequest
  \/ TurnReturns
  \/ TurnThrows
  \/ SessionReturns

SpecCollaboration == CollaborationInit /\ [][CollaborationNext]_vars
(***************************************************************************)
(* Properties of the collaboration session runner                          *)
(***************************************************************************)
\* the parts occur in the text one after the other, from position from on
RECURSIVE OccursFrom(_, _, _, _)
OccursFrom(text, parts, k, from) ==
  IF k > Len(parts) THEN TRUE
  ELSE LET hits == { p \in from..(Len(text) - Len(parts[k]) + 1) :
                       SubSeq(text, p, p + Len(parts[k]) - 1) = parts[k] }
       IN /\ hits # {}
          /\ OccursFrom(text, parts, k + 1,
                        (CHOOSE p \in hits : \A q \in hits : p <= q)
                          + Len(parts[k]))

OccursInOrder(text, parts) == OccursFrom(text, parts, 1, 1)

\* C13: the generation input of the k-th speaker contains, verbatim and in
\* speaking order, the note of every earlier speaker (each under its
\* speaker's id; the failure-substitute note where that speaker's call
\* failed), and the call of the k-th speaker is issued only when the notes of
\* all k - 1 earlier speakers are finalized.
SequentialDependency ==
  \A k \in 1..Len(session.inputs) :
    /\ session.inputs[k].memberId = session.selected[k]
    /\ session.inputs[k].finalized = k - 1
    /\ Len(session.notes) >= k - 1
    /\ OccursInOrder(session.inputs[k].text,
                     [ j \in 1..(k - 1) |->
                         DialogueEntry(session.notes[j].memberId,
                                       session.notes[j].note) ])

\* the third speaker's call is issued after a failed first and a successful
\* second speaker
SequentialDependencyWitness ==
  /\ Len(session.inputs) >= 3
  /\ 1 \in session.failed
  /\ session.notes[1].note = FailureNote
  /\ session.notes[2].note \in GeneratedTexts

Speakers == [ k \in 1..Len(session.transcript) |->
                session.transcript[k].speakerId ]

NoteMembers == [ k \in 1..Len(session.notes) |-> session.notes[k].memberId ]

\* C14 (as amended): the speaker sequence of a collaboration transcript
\* equals the first eight participants of the supplied list in the supplied
\* order, and each of them gets exactly one turn and one note; participants
\* after the eighth get neither.
SpeakersAreFirstEight ==
  LET n == IF Len(session.participants) < 8
           THEN Len(session.participants) ELSE 8
  IN
  /\ Len(Speakers) <= n
  /\ Speakers = SubSeq(session.participants, 1, Len(Speakers))
  /\ NoteMembers = Speakers
  /\ session.pc = "returned" => Len(Speakers) = n

\* the session of the 11-member default team has returned with eight turns
SpeakersWitness ==
  /\ session.pc = "returned"
  /\ Len(session.participants) = 11
  /\ Len(session.transcript) = 8
  /\ Len(session.notes) = 8

\* C14 as stated: the speaker sequence of a returned session equals the
\* supplied participant list, whatever its length
SpeakersAreParticipants ==
  session.pc = "returned" =>
    /\ Speakers = session.participants
    /\ NoteMembers = session.participants

\* C15: a failed generation call aborts neither the session nor the run: the
\* participant's note is the failure notice, it is recorded as that
\* participant's turn (in the transcript and in the meeting turns), and the
\* session returns only when every selected participant has taken a turn.
FailedCallDoesNotAbort ==
  /\ \A k \in session.failed :
       /\ k <= Len(session.notes)
       /\ session.notes[k] =
            [ memberId |-> session.selected[k], note |-> FailureNote ]
       /\ session.transcript[k] =
            [ speakerId |-> session.selected[k], text |-> FailureNote ]
       /\ \E t \in 1..Len(meetingTurns) :
            /\ meetingTurns[t].speakerId = session.selected[k]
            /\ meetingTurns[t].room = "collaboration"
            /\ meetingTurns[t].text = FailureNote
  /\ session.pc = "returned" =>
       Len(session.transcript) = Len(session.selected)
  /\ session.pc # "none" =>
       /\ workflowFailures = 0
       /\ running
       /\ runs[1].pc = "collaboration"

\* a returned session in which a call failed and the next speaker's call
\* succeeded
FailedCallWitness ==
  /\ session.pc = "returned"
  /\ \E k \in session.failed :
       /\ k < Len(session.transcript)
       /\ session.transcript[k + 1].text \in GeneratedTexts
(***************************************************************************)
(* Properties of the offline mode, of the uploads and of the brainstorm     *)
(***************************************************************************)
Contains(text, part) == OccursInOrder(text, << part >>)

\* no generation call is made while no operator is signed in
OfflineRunMakesNoCall == ~user => dispatchCalls = 0

\* a finished offline run has persisted, in the local list, a report whose
\* text contains the directive
OfflineReportPersisted ==
  \A i \in RunSlots :
    ( ~runs[i].user /\ runs[i].pc = "done" ) =>
      \E k \in 1..Len(reports) :
        /\ reports[k].threadId = runs[i].threadId
        /\ reports[k].source = "local"
        /\ reports[k].body = runs[i].report
        /\ reports[k].body.offline
        /\ Contains(reports[k].body.text, runs[i].task)

\* the phase a step of a run sets, by the await the step ends at
PhaseAt(pc) ==
  CASE pc = "brainstorm" -> "brainstorming"
    [] pc = "management" -> "collaboration"
    [] pc = "execution" -> "execution"
    [] pc = "finalReport" -> "reporting"
    [] OTHER -> "idle"

\* the steps of an offline run follow one another and set the five phases in
\* order (the step after the management plans sets none), and the last one
\* returns to idle
OfflineStepOrder ==
  \A i \in RunSlots :
    ( ~user /\ runs'[i].pc # runs[i].pc /\ runs'[i].pc \notin
        { "chatPersist", "rejected" } ) =>
      /\ << runs[i].pc, runs'[i].pc >> \in
           { << "none", "brainstorm" >>, << "chatPersist", "brainstorm" >>,
             << "brainstorm", "management" >>,
             << "management", "collaboration" >>,
             << "collaboration", "execution" >>,
             << "execution", "finalReport" >>, << "finalReport", "done" >> }
      /\ runs'[i].pc # "collaboration" => phase' = PhaseAt(runs'[i].pc)
      /\ runs'[i].pc = "done" => ~running'

WorkflowUploadsNext ==
  \/ FormSubmitAccepted
  \/ RunThrows
  \/ BrainstormOffline
  \/ BrainstormParsed
  \/ BrainstormUnparsed
  \/ ManagementDone
  \/ CollaborationDone
  \/ ExecutionDone
  \/ ExecutionWithAttachment
  \/ ReportDone
  \/ ReportDoneUploadThrows

SpecWorkflowUploads == WorkflowInit /\ [][WorkflowUploadsNext]_vars

\* the catch block is entered only when a generation call threw
CatchOnlyAfterFailedCall == workflowFailures <= callFailures

\* the step in which the attachment upload throws enters the reporting phase
AttachmentThrowIsNotFatal ==
  \A i \in RunSlots :
    ( runs[i].pc = "execution" /\ runs'[i].inbound = "failed" ) =>
      /\ runs'[i].pc = "finalReport"
      /\ phase' = "reporting"
      /\ running'
      /\ workflowFailures' = workflowFailures
      /\ workflowError' = workflowError

\* the step in which a document upload throws persists the report and the
\* notification message and ends the run on the success path
DocumentThrowIsNotFatal ==
  \A i \in RunSlots :
    ( runs[i].pc = "finalReport" /\ runs'[i].failedDocuments # {} ) =>
      /\ runs'[i].pc = "done"
      /\ Len(reports') = Len(reports) + 1
      /\ reports'[Len(reports')].body = runs'[i].report
      /\ reports'[Len(reports')].threadId = runs[i].threadId
      /\ Len(messages') = Len(messages) + 1
      /\ messages'[Len(messages')].kind = "report"
      /\ phase' = "idle"
      /\ ~running'
      /\ workflowFailures' = workflowFailures
      /\ workflowError' = workflowError

\* a run whose attachment upload threw and which has finished has persisted
\* its report
ThrownAttachmentRunReports ==
  \A i \in RunSlots :
    ( runs[i].inbound = "failed" /\ runs[i].pc = "done" ) =>
      \E k \in 1..Len(reports) :
        /\ reports[k].body = runs[i].report
        /\ "inbound" \notin SeqRange(reports[k].assets)

\* C17: a run whose attachment upload throws, or whose report-document or
\* transcript-document upload throws, still reaches the reporting phase,
\* persists the final report and the notification message, and ends on the
\* success path: no upload failure leads into the catch block.
UploadFailuresAreNotFatal ==
  /\ []CatchOnlyAfterFailedCall
  /\ []ThrownAttachmentRunReports
  /\ [][AttachmentThrowIsNotFatal]_vars
  /\ [][DocumentThrowIsNotFatal]_vars

\* a finished run all three of whose uploads threw
UploadFailuresWitness ==
  \E i \in RunSlots :
    /\ runs[i].pc = "done"
    /\ runs[i].inbound = "failed"
    /\ runs[i].failedDocuments = { "report", "transcript" }
    /\ workflowFailures = 0
    /\ \E k \in 1..Len(reports) :
         /\ reports[k].body = runs[i].report
         /\ reports[k].assets = << >>
\* the runs whose brainstorm response did not parse
Unparsed(run) ==
  /\ run.response # << >>
  /\ tryParseJson(run.response) = NoJson

\* the raw text is the strategy and the default team is the participant set
UnparsedUsesRawTextAndDefaultTeam ==
  \A i \in RunSlots :
    Unparsed(runs[i]) =>
      /\ runs[i].strategy = runs[i].response
      /\ runs[i].participants = DEFAULT_COLLABORATION_TEAM

\* the step that receives an unparseable response enters the collaboration
\* phase
UnparsedContinues ==
  \A i \in RunSlots :
    ( runs[i].pc = "brainstorm" /\ Unparsed(runs'[i]) ) =>
      /\ runs'[i].pc = "management"
      /\ phase' = "collaboration"
      /\ running' = running
      /\ workflowError' = workflowError
      /\ workflowFailures' = workflowFailures
      /\ \E t \in 1..Len(meetingTurns') :
           /\ meetingTurns'[t].room = "brainstorming"
           /\ meetingTurns'[t].text = runs'[i].response

\* every entry into the catch block is due to a generation call that threw
FailuresComeFromCalls == workflowFailures <= callFailures

\* C18: an unparseable brainstorming response never aborts the workflow: the
\* raw response text becomes the strategy, the default team becomes the
\* participant set, and the run continues into the collaboration phase.
UnparsedBrainstormContinues ==
  /\ []UnparsedUsesRawTextAndDefaultTeam
  /\ []FailuresComeFromCalls
  /\ [][UnparsedContinues]_vars

\* a run whose brainstorm response did not parse has finished
UnparsedBrainstormWitness ==
  \E i \in RunSlots :
    /\ Unparsed(runs[i])
    /\ runs[i].pc = "done"
    /\ runs[i].strategy = GeneratedText

\* the roster ids other than the director among the upper-cased participants
\* of the brainstorm plan, in their order
FilteredParticipants(list) ==
  SelectSeq([ k \in 1..Len(list) |-> ToUpperCase(list[k]) ],
            LAMBDA id : id \in MEMBER_BY_ID \ { "CEO-HOBBY" })

FirstIndex(list, id) ==
  CHOOSE k \in 1..Len(list) :
    /\ list[k] = id
    /\ \A j \in 1..(k - 1) : list[j] # id

\* C19: the collaboration participant list of every run is non-empty, has no
\* duplicates, contains only roster ids and never CEO-HOBBY; it equals the
\* filtered parsed participants (each once, in the order of their first
\* occurrence) when that set is non-empty, and the default team otherwise.
ParticipantListWellFormed ==
  \A i \in RunSlots :
    runs[i].pc \in { "management", "collaboration", "execution",
                     "finalReport", "done" } =>
      LET list == runs[i].participants
          filtered == FilteredParticipants(runs[i].brainstormParticipants)
      IN
      /\ Len(list) > 0
      /\ \A a, b \in 1..Len(list) : a # b => list[a] # list[b]
      /\ SeqRange(list) \subseteq MEMBER_BY_ID
      /\ "CEO-HOBBY" \notin SeqRange(list)
      /\ IF filtered # << >>
         THEN /\ SeqRange(list) = SeqRange(filtered)
              /\ \A a, b \in 1..Len(list) :
                   a < b => FirstIndex(filtered, list[a])
                              < FirstIndex(filtered, list[b])
         ELSE list = DEFAULT_COLLABORATION_TEAM

\* a run whose plan named a participant twice (in two spellings), the
\* director and an unknown id, and a run whose plan named only the director
ParticipantListWitness ==
  /\ \E i \in RunSlots :
       /\ runs[i].pc = "collaboration"
       /\ Len(runs[i].brainstormParticipants) = 5
       /\ runs[i].participants = << "DEV-TAN", "QA-TAN" >>
  /\ \E i \in RunSlots :
       /\ runs[i].brainstormParticipants = << "CEO-HOBBY" >>
       /\ runs[i].participants = DEFAULT_COLLABORATION_TEAM

\* a step of runGovernanceWatch at the end of a run
GovernancePass == governanceAlerts' # governanceAlerts

\* the alerts of one pass: HR-TAN on top of LEGAL-TAN on top of the earlier
\* ones; each checker whose call threw has a warning alert with the error
\* message; the pass ends the run on the success path
PassAddsTwoAlerts ==
  GovernancePass =>
    LET thrown == { k \in 1..2 : governanceAlerts'[k].message = CheckerError }
    IN
    /\ Len(governanceAlerts') = Len(governanceAlerts) + 2
    /\ SubSeq(governanceAlerts', 3, Len(governanceAlerts')) = governanceAlerts
    /\ governanceAlerts'[2].source = "LEGAL-TAN"
    /\ governanceAlerts'[1].source = "HR-TAN"
    /\ Cardinality(thrown) = callFailures' - callFailures
    /\ \A k \in thrown : governanceAlerts'[k].status = "warning"
    /\ workflowFailures' = workflowFailures
    /\ workflowError' = workflowError
    /\ \E i \in RunSlots :
         /\ runs[i].pc = "finalReport"
         /\ runs'[i].pc = "done"
         /\ governanceAlerts'[1].threadId = runs[i].threadId
         /\ governanceAlerts'[2].threadId = runs[i].threadId

\* every run that ends on the success path has made its pass
EveryRunMakesItsPass ==
  \A i \in RunSlots :
    ( runs[i].pc = "finalReport" /\ runs'[i].pc = "done" ) => GovernancePass

\* C20: each governance pass produces exactly two alerts, one for LEGAL-TAN
\* and one for HR-TAN; a checker whose call fails is recorded as a
\* warning-status alert carrying the error message, the other checker is
\* still called, and the failure never reaches the caller.
GovernancePassTwoAlerts ==
  /\ [][PassAddsTwoAlerts]_vars
  /\ [][EveryRunMakesItsPass]_vars

\* a finished online run whose LEGAL-TAN call threw and whose HR-TAN call
\* returned
GovernancePassWitness ==
  /\ Len(governanceAlerts) >= 2
  /\ governanceAlerts[2] =
       [ threadId |-> governanceAlerts[1].threadId, source |-> "LEGAL-TAN",
         status |-> "warning", message |-> CheckerError ]
  /\ governanceAlerts[1].source = "HR-TAN"
  /\ governanceAlerts[1].status = "ok"
  /\ governanceAlerts[1].message = GeneratedText
  /\ workflowFailures = 0
  /\ \E i \in RunSlots : runs[i].pc = "done" /\ runs[i].user
(***************************************************************************)
(* startWorkflow: the reporting tail, one step per await                   *)
(***************************************************************************)
TailPcs ==
  { "persistReport", "persistMessage", "governanceLegal", "governanceHr",
    "governed" }

\* what no step of the tail writes
tailFrame ==
  << running, workflowError, agentActive, activeMembers, meetingTurns,
     threadTitle, activeThreadId, user, sendingMessage, runsAccepted,
     workflowFailures, sharedVars, registryVars, serviceVars >>

\* runFinalReport has returned and the two documents are uploaded
TailFinalReport ==
  \E i \in RunSlots :
    LET r == runs[i] IN
    /\ r.pc = "finalReport"
    /\ dispatchCalls' = dispatchCalls + (IF r.user THEN 1 ELSE 0)
    /\ activityLogs' = AppendLogs(activityLogs, r.threadId, "execution", 2)
    /\ runs' =
         [ runs EXCEPT
             ![i].pc = "persistReport",
             ![i].report =
               IF r.user THEN [ offline |-> FALSE, text |-> GeneratedText ]
               ELSE [ offline |-> TRUE,
                      text |-> OfflineReportText(r.task, r.strategy, r.notes,
                                                 r.poPlan, r.pmPlan) ] ]
    /\ UNCHANGED << phase, reports, messages, governanceAlerts, callFailures,
                    tailFrame >>

\* a plausible slip: the notification message is not awaited before the
\* governance pass
TailPersistReportThenPass ==
  \E i \in RunSlots :
    LET r == runs[i] IN
    /\ r.pc = "persistReport"
    /\ reports' =
         PersistReport(reports, r.threadId, r.report, r.participants,
                       << "report", "transcript" >>, r.user)
    /\ runs' = [ runs EXCEPT ![i].pc = "governanceLegal" ]
    /\ UNCHANGED << phase, activityLogs, messages, governanceAlerts,
                    dispatchCalls, callFailures, tailFrame >>

\* await persistReport(reportData); the write, if one is made, resolves
TailPersistReport ==
  \E i \in RunSlots :
    LET r == runs[i] IN
    /\ r.pc = "persistReport"
    /\ reports' =
         PersistReport(reports, r.threadId, r.report, r.participants,
                       SelectSeq(<< "report", "transcript", "inbound" >>,
                                 LAMBDA a :
                                   /\ a = "transcript" => Len(r.notes) > 0
                                   /\ a = "inbound" => r.inbound = "uploaded"),
                       r.user)
    /\ runs' = [ runs EXCEPT ![i].pc = "persistMessage" ]
    /\ UNCHANGED << phase, activityLogs, messages, governanceAlerts,
                    dispatchCalls, callFailures, tailFrame >>

\* await persistOfficeMessage({ ..., kind: "report", ... }); the write, if
\* one is made, resolves
TailPersistMessage ==
  \E i \in RunSlots :
    LET r == runs[i] IN
    /\ r.pc = "persistMessage"
    /\ messages' =
         PersistMessage(messages, r.threadId, "ATTENDANT-TAN", "report",
                        r.user)
    /\ runs' = [ runs EXCEPT ![i].pc = "governanceLegal" ]
    /\ UNCHANGED << phase, activityLogs, reports, governanceAlerts,
                    dispatchCalls, callFailures, tailFrame >>

\* one iteration of the loop of runGovernanceWatch inside startWorkflow
TailChecker(i, checker, outcome, from, to) ==
  LET r == runs[i] IN
  /\ r.pc = from
  /\ outcome.threw => callFailures < MaxCallFailures
  /\ callFailures' = callFailures + (IF outcome.threw THEN 1 ELSE 0)
  /\ dispatchCalls' = dispatchCalls + (IF r.user THEN 1 ELSE 0)
  /\ governanceAlerts' =
       CheckerAlert(governanceAlerts, r.threadId, checker, outcome)
  /\ runs' = [ runs EXCEPT ![i].pc = to ]
  /\ UNCHANGED << phase, activityLogs, reports, messages, tailFrame >>

TailCheckLegal ==
  \E i \in RunSlots :
    \E outcome \in CheckerOutcomes(runs[i].user, { GeneratedText }) :
      TailChecker(i, "LEGAL-TAN", outcome, "governanceLegal", "governanceHr")

TailCheckHr ==
  \E i \in RunSlots :
    \E outcome \in CheckerOutcomes(runs[i].user, { GeneratedText }) :
      TailChecker(i, "HR-TAN", outcome, "governanceHr", "governed")

\* runGovernanceWatch has returned: the last log and the return to idle
TailFinish ==
  \E i \in RunSlots :
    LET r == runs[i] IN
    /\ r.pc = "governed"
    /\ activityLogs' = AppendLog(activityLogs, r.threadId, "reporting")
    /\ phase' = "idle"
    /\ running' = FALSE
    /\ activeMembers' = << >>
    /\ agentActive' =
         setMembersToDesk(setMembersToDesk(agentActive, nonCeoMembers, FALSE),
                          << "CEO-HOBBY" >>, FALSE)
    /\ runs' = [ runs EXCEPT ![i].pc = "done" ]
    /\ sendingMessage' = IF r.entry = "chat" THEN FALSE ELSE sendingMessage
    /\ UNCHANGED << workflowError, threadTitle, activeThreadId, user,
                    runsAccepted, meetingTurns, reports, messages,
                    governanceAlerts, dispatchCalls, callFailures,
                    workflowFailures, sharedVars, registryVars, serviceVars >>

ReportTailNext ==
  \/ FormSubmitAccepted
  \/ FormSubmitRejected
  \/ ChatRunSubmit
  \/ ChatRunRejected
  \/ ChatRunAccepted
  \/ RunThrows
  \/ BrainstormOffline
  \/ BrainstormParsed
  \/ BrainstormUnparsed
  \/ ManagementDone
  \/ CollaborationDone
  \/ ExecutionDone
  \/ TailFinalReport
  \/ TailPersistReport
  \/ TailPersistMessage
  \/ TailCheckLegal
  \/ TailCheckHr
  \/ TailFinish

SpecReportTail == WorkflowInit /\ [][ReportTailNext]_vars

\* the number of entries of a list that satisfy a test
Count(list, Test(_)) == Len(SelectSeq(list, Test))

AlertsOf(checker) ==
  Count(governanceAlerts, LAMBDA a : a.source = checker)

\* a pass starts (its LEGAL-TAN alert is the first thing it records) only
\* when the report and the notification message of its run are persisted;
\* with one report per run, no run makes a second pass
PassAfterReportAndMessage ==
  \A t \in Threads :
    LET legal == Count(governanceAlerts,
                       LAMBDA a : a.source = "LEGAL-TAN" /\ a.threadId = t)
        notified == Count(messages,
                          LAMBDA m : m.kind = "report" /\ m.threadId = t)
        reported == Count(reports, LAMBDA p : p.threadId = t)
    IN /\ legal <= notified
       /\ notified <= reported

\* a run that has ended on the success path has made its whole pass
PassBeforeEnd ==
  /\ Cardinality({ i \in RunSlots : runs[i].pc = "done" }) <= AlertsOf("HR-TAN")
  /\ AlertsOf("HR-TAN") <= AlertsOf("LEGAL-TAN")
  /\ AlertsOf("LEGAL-TAN") <=
       Cardinality({ i \in RunSlots : runs[i].pc \in TailPcs \cup { "done" } })

\* the step of a run that returns the phase to idle on the success path finds
\* both alerts of the run recorded, and records none
PassBeforeIdle ==
  \A i \in RunSlots :
    ( runs[i].pc # "done" /\ runs'[i].pc = "done" ) =>
      /\ phase' = "idle"
      /\ governanceAlerts' = governanceAlerts
      /\ Len(governanceAlerts) >= 2
      /\ \E k \in 1..(Len(governanceAlerts) - 1) :
           /\ governanceAlerts[k].source = "HR-TAN"
           /\ governanceAlerts[k].threadId = runs[i].threadId
           /\ \E j \in (k + 1)..Len(governanceAlerts) :
                /\ governanceAlerts[j].source = "LEGAL-TAN"
                /\ governanceAlerts[j].threadId = runs[i].threadId

\* C21: in every successful run exactly one governance pass is executed by
\* the orchestrator; it starts only after the final report and the
\* notification message to the director have been persisted and finishes
\* before the phase returns to idle.
OnePassAfterPersistBeforeIdle ==
  /\ []PassAfterReportAndMessage
  /\ []PassBeforeEnd
  /\ [][PassBeforeIdle]_vars

\* a run has ended on the success path with its report, its message and its
\* two alerts, while a second run is between its message and its pass
OnePassWitness ==
  /\ \E i \in RunSlots : runs[i].pc = "done"
  /\ \E i \in RunSlots : runs[i].pc = "governanceLegal"
  /\ Len(reports) = 2
  /\ Len(governanceAlerts) = 2
(***************************************************************************)
(* The orchestrator while the operator moves between threads               *)
(***************************************************************************)
\* the operator clicks a thread of the list: setActiveThreadId(thread.id)
WorkflowSelectThread ==
  \E t \in Threads :
    /\ t # activeThreadId
    /\ activeThreadId' = t
    /\ UNCHANGED << running, phase, workflowError, agentActive, activeMembers,
                    activityLogs, threadTitle, user, sendingMessage, runs,
                    runsAccepted, workflowFrame, sharedVars, registryVars,
                    serviceVars >>

WorkflowThreadsNext ==
  \/ WorkflowSelectThread
  \/ FormSubmitAccepted
  \/ FormSubmitRejected
  \/ ChatRunSubmit
  \/ ChatRunRejected
  \/ ChatRunAccepted
  \/ RunThrows
  \/ BrainstormOffline
  \/ BrainstormParsed
  \/ BrainstormUnparsed
  \/ ManagementDone
  \/ CollaborationDone
  \/ ExecutionDone
  \/ ReportDone

SpecWorkflowThreads == WorkflowInit /\ [][WorkflowThreadsNext]_vars

\* the threads on which a run is in progress
ThreadsInProgress == { runs[i].threadId : i \in RunsInProgress }

\* a startWorkflow call is about to be made for a chat directive sent on a
\* thread without a run while a run is in progress on another thread
CrossThreadCall(i) ==
  /\ runs[i].pc = "chatPersist"
  /\ runs[i].running
  /\ ThreadsInProgress # {}
  /\ runs[i].threadId \notin ThreadsInProgress

\* C22: starting a workflow on thread B while a run on thread A is in
\* progress is accepted, because the re-entrancy guard is scoped to the
\* thread.
CrossThreadStartAccepted ==
  [][ \A i \in RunSlots :
        CrossThreadCall(i) => runs'[i].pc # "rejected" ]_vars
\* the records a step adds carry the thread id t, and nothing of another
\* thread is written
StepWritesOnlyThread(t) ==
  /\ \A k \in 1..Len(meetingTurns') :
       meetingTurns'[k] \notin SeqRange(meetingTurns) =>
         meetingTurns'[k].threadId = t
  /\ \A k \in 1..Len(actionPlans') :
       actionPlans'[k] \notin SeqRange(actionPlans) =>
         actionPlans'[k].threadId = t
  /\ \A k \in (Len(reports) + 1)..Len(reports') : reports'[k].threadId = t
  /\ \A k \in (Len(messages) + 1)..Len(messages') : messages'[k].threadId = t
  /\ \A k \in 1..(Len(governanceAlerts') - Len(governanceAlerts)) :
       governanceAlerts'[k].threadId = t
  /\ \A key \in DOMAIN activityLogs :
       activityLogs'[key] # activityLogs[key] => key[1] = t
  /\ \A u \in Threads : threadTitle'[u] # threadTitle[u] => u = t

\* every step of a run writes under the one thread id the run holds
RunWritesItsThread ==
  \A i \in RunSlots :
    runs'[i] # runs[i] =>
      /\ runs[i].pc # "none" => runs'[i].threadId = runs[i].threadId
      /\ StepWritesOnlyThread(runs'[i].threadId)

\* the thread id of a run is the thread that is active when startWorkflow is
\* called
ThreadAtCall ==
  \A i \in RunSlots :
    ( runs[i].pc # "brainstorm" /\ runs'[i].pc = "brainstorm" ) =>
      runs'[i].threadId = activeThreadId

\* the thread id of a run is the thread that is active when the operator
\* issues the directive (submits the form, or sends the "/run" chat message)
ThreadAtDirective ==
  \A i \in RunSlots :
    ( runs[i].pc = "none" /\ runs'[i].pc # "none" ) =>
      runs'[i].threadId = activeThreadId

\* C28: every record produced by one workflow run (meeting turns, plan
\* upserts, the report, the notification message, governance alerts,
\* activity logs) carries the id of the thread that was active when
\* startWorkflow was called, also when the operator switches the active
\* thread while the run is in progress.
RunRecordsCarryCallThread ==
  /\ [][RunWritesItsThread]_vars
  /\ [][ThreadAtCall]_vars

\* C28, amended: every record of a run carries the id of the thread that was
\* active when the operator issued the directive, also when the operator
\* switches the active thread afterwards.
RunRecordsCarryDirectiveThread ==
  /\ [][RunWritesItsThread]_vars
  /\ [][ThreadAtDirective]_vars

\* a run started from the form has ended after the operator moved to another
\* thread before its first record; all records are under the run's thread
RunRecordsWitness ==
  \E i \in RunSlots :
    /\ runs[i].pc = "done"
    /\ runs[i].entry = "form"
    /\ runs[i].threadId # activeThreadId
    /\ Len(reports) = 1 /\ reports[1].threadId = runs[i].threadId
    /\ Len(governanceAlerts) = 2
    /\ governanceAlerts[1].threadId = runs[i].threadId
    /\ meetingTurns # << >>
    /\ \A k \in 1..Len(meetingTurns) :
         meetingTurns[k].threadId = runs[i].threadId
    /\ \A kind \in LogKinds : activityLogs[<< activeThreadId, kind >>] = 0
    /\ \A j \in RunSlots : j # i => runs[j].pc = "none"
(***************************************************************************)
(* Properties of the proxy's routes                                        *)
(***************************************************************************)
\* the secret values that are absent or a disabled placeholder
AbsentOrDisabled ==
  { << >>,
    << "n", "o", "n", "e" >>,
    << " ", "N", "o", "n", "E", " " >>,
    << "D", "i", "s", "a", "b", "l", "e", "d" >> }

Answered == call.pc \in { "responded", "done" }

\* C23: when the selected provider's credential is absent or set to a
\* disabled placeholder (compared trimmed and case-insensitively), a text or
\* image dispatch ends in an error response and no request is sent to the
\* provider backend.
DisabledCredentialSendsNothing ==
  ( /\ call.route \in { "text", "image" }
    /\ call.secret \in AbsentOrDisabled ) =>
    /\ backendRequests = << >>
    /\ Answered => call.status \in { 400, 401, 500 }
    /\ call.pc = "done" => call.outcome = "error"
    /\ ( /\ Answered
         /\ call.authorization = << "B", "t" >>
         /\ Trim(call.input) # << >> ) => call.status = 500

\* a text dispatch with a verified token and a prompt, whose provider secret
\* is a placeholder written with capitals and blanks, has failed
DisabledCredentialWitness ==
  /\ call.pc = "done"
  /\ call.route = "text"
  /\ call.authorization = << "B", "t" >>
  /\ Trim(call.input) # << >>
  /\ call.secret = << " ", "N", "o", "n", "E", " " >>
  /\ call.status = 500
  /\ call.outcome = "error"

\* the statuses and payload texts a proxy may answer with
ProxyStatuses == { 200, 400, 401, 500 }
PayloadTexts == { << >>, << " " >>, << " ", "a" >>, << "a" >> }

\* the last request of the call was answered with a success status and a
\* text that is empty once trimmed
BackendGaveNoText ==
  /\ backendRequests # << >>
  /\ backendRequests[Len(backendRequests)].kind = "ok"
  /\ Trim(backendRequests[Len(backendRequests)].text) = << >>

\* C24: a text dispatch that returns successfully always returns non-empty
\* text: a backend response with a success status but no usable text is
\* turned into a failure at the proxy for every provider, and an empty or
\* whitespace-only proxy payload is turned into a failure at the client.
SuccessfulDispatchHasText ==
  /\ ( call.route = "text" /\ call.outcome = "text" ) =>
       /\ call.returned # << >>
       /\ Trim(call.returned) = call.returned
  /\ ( call.route = "text" /\ Answered /\ BackendGaveNoText ) =>
       /\ call.status = 500
       /\ call.pc = "done" => call.outcome = "error"
  /\ ( call.route = "text" /\ call.status = 200 ) => Trim(call.text) # << >>
  /\ \A status \in ProxyStatuses, text \in PayloadTexts :
       LET result == ReadProxyPayload(status, text) IN
       /\ result.outcome = "text" => result.returned # << >>
       /\ Trim(text) = << >> => result.outcome = "error"

\* the xAI function has turned a success response whose text is blank into
\* a failure
SuccessfulDispatchWitness ==
  /\ call.pc = "done"
  /\ call.route = "text"
  /\ call.provider = "xai"
  /\ BackendGaveNoText
  /\ call.status = 500
  /\ call.outcome = "error"

SameButExecution(before, after) ==
  /\ after.id = before.id
  /\ after.plan = before.plan
  /\ after.source = before.source
  /\ after.memberId = before.memberId
  /\ after.threadId = before.threadId
  /\ after.createdAt = before.createdAt

\* the step that ends an execution either records the time and the summary
\* on the plan with the id it was called with and touches nothing else, or
\* (the execution failed) leaves the list as it was
ExecutionRecordsOnlyItsEvent ==
  ( executingPlanId # 0 /\ executingPlanId' = 0 ) =>
    \/ actionPlans' = actionPlans
    \/ /\ Len(actionPlans') = Len(actionPlans)
       /\ \A i \in 1..Len(actionPlans) :
            IF actionPlans[i].id = executingPlanId
            THEN /\ SameButExecution(actionPlans[i], actionPlans'[i])
                 /\ actionPlans'[i].lastExecutedAt = now
                 /\ actionPlans'[i].lastExecutionSummary \in GeneratedTexts
            ELSE actionPlans'[i] = actionPlans[i]

\* no other step writes the execution fields: an upsert keeps them, also for
\* the key it overwrites
OnlyExecutionWritesItsFields ==
  ~( executingPlanId # 0 /\ executingPlanId' = 0 ) =>
    \A i \in 1..Len(actionPlans) :
      \E j \in 1..Len(actionPlans') :
        /\ actionPlans'[j].id = actionPlans[i].id
        /\ actionPlans'[j].lastExecutedAt = actionPlans[i].lastExecutedAt
        /\ actionPlans'[j].lastExecutionSummary =
             actionPlans[i].lastExecutionSummary

\* C26: executing an action plan records lastExecutedAt and
\* lastExecutionSummary on the plan with that id and leaves that plan's text,
\* source, memberId, threadId and createdAt, and every other plan, unchanged;
\* a failed execution records nothing; a later upsert for the same key keeps
\* the recorded execution fields.
ExecutionIndependentOfUpsert ==
  /\ [][ExecutionRecordsOnlyItsEvent]_vars
  /\ [][OnlyExecutionWritesItsFields]_vars

\* a plan was executed and its key was upserted afterwards: the plan holds
\* the text of the upsert and the summary of the execution
ExecutionWitness ==
  \E i \in 1..Len(actionPlans) :
    /\ actionPlans[i].lastExecutedAt > 0
    /\ actionPlans[i].lastExecutionSummary \in GeneratedTexts
    /\ actionPlans[i].updatedAt > actionPlans[i].lastExecutedAt
    /\ issued[<< actionPlans[i].threadId, actionPlans[i].memberId >>].n = 2
(***************************************************************************)
(* The plan registry at its capacity                                       *)
(***************************************************************************)
\* the threads of earlier sessions, whose plans fill the list
ArchivedThreads == 101..117

\* the plan at position k of a list filled by PlanCap contributions to
\* archived threads, newest first
ArchivedPlan(k) ==
  [ id |-> PlanCap + 1 - k,
    threadId |-> 101 + ((PlanCap - k) \div Len(nonCeoMembers)),
    memberId |-> nonCeoMembers[((PlanCap - k) % Len(nonCeoMembers)) + 1],
    plan |-> GeneratedText, source |-> "workflow", createdAt |-> 1,
    updatedAt |-> 1, lastExecutedAt |-> 0, lastExecutionSummary |-> << >> ]

\* the list holds PlanCap plans of archived threads
FullRegistryInit ==
  /\ now = 2
  /\ nextId = PlanCap + 1
  /\ actionPlans = [ k \in 1..PlanCap |-> ArchivedPlan(k) ]
  /\ executingPlanId = 0
  /\ executingPlan = NoPlan
  /\ issued = [ k \in Keys |-> NoUpsert ]
  /\ upsertCount = 0
  /\ execCount = 0
  /\ execCalls = [ inFlight |-> 0, rejected |-> 0 ]
  /\ WorkflowStateInit(FALSE)
  /\ ProxyStateInit
  /\ ChatStateInit
  /\ WatcherStateInit
  /\ SessionStateInit

\* the operator executes a plan of a current thread, or the plan at the end
\* of the list
ExecuteListedPlanStart ==
  \E i \in { k \in 1..Len(actionPlans) :
               \/ actionPlans[k].threadId \in Threads
               \/ k = Len(actionPlans) } :
    ExecuteActionPlanAt(i)

FullRegistryNext ==
  \/ UpsertManagement
  \/ UpsertCollaborationNote
  \/ UpsertChatReply
  \/ ExecuteListedPlanStart
  \/ ExecuteActionPlanSucceed
  \/ ExecuteActionPlanFail

SpecRegistryFull == FullRegistryInit /\ [][FullRegistryNext]_vars

\* the keys for which a list holds a plan
StoredKeys(plans) ==
  { << plans[i].threadId, plans[i].memberId >> : i \in 1..Len(plans) }

\* C27: no operation of the core ever removes an ActionPlan: once a plan
\* exists for a key (thread, member), a plan for that key exists in every
\* later state, for any number of threads and any number of stored plans.
PlanNeverRemoved ==
  [][StoredKeys(actionPlans) \subseteq StoredKeys(actionPlans')]_vars

\* a step removes a plan only by creating a plan for a new key in a list that
\* holds PlanCap plans, and then removes the one plan at the end of the list
RemovedOnlyAtCapacity ==
  LET removed == StoredKeys(actionPlans) \ StoredKeys(actionPlans') IN
  removed # {} =>
    /\ Len(actionPlans) = PlanCap
    /\ Len(actionPlans') = PlanCap
    /\ removed = { << actionPlans[PlanCap].threadId,
                      actionPlans[PlanCap].memberId >> }
    /\ << actionPlans'[1].threadId, actionPlans'[1].memberId >>
         \notin StoredKeys(actionPlans)
    /\ SubSeq(actionPlans', 2, PlanCap) = SubSeq(actionPlans, 1, PlanCap - 1)

\* C27, amended: no operation of the core removes an ActionPlan while fewer
\* than PlanCap plans are stored; the list never holds more than PlanCap
\* plans, and an upsert that creates a plan for a new key in a full list
\* drops the plan at the end of the list.
PlanRemovedOnlyAtCapacity ==
  /\ [][RemovedOnlyAtCapacity]_vars
  /\ [](Len(actionPlans) <= PlanCap)

\* two contributions to current threads have each pushed a plan of an
\* archived thread out of the full list
PlanRemovedWitness ==
  /\ Len(actionPlans) = PlanCap
  /\ actionPlans[1].threadId \in Threads
  /\ actionPlans[2].threadId \in Threads
  /\ << 101, nonCeoMembers[1] >> \notin StoredKeys(actionPlans)
  /\ << 101, nonCeoMembers[2] >> \notin StoredKeys(actionPlans)
  /\ << 101, nonCeoMembers[3] >> \in StoredKeys(actionPlans)
(***************************************************************************)
(* Properties of the collaboration results                                 *)
(***************************************************************************)
\* a step in which run i enters the execution phase
EntersExecution(i) ==
  /\ runs[i].pc = "collaboration"
  /\ runs'[i].pc = "execution"
  /\ phase' = "execution"

\* the note of a speaker is recorded as a meeting turn of the run's thread
TurnRecorded(i, item) ==
  \E t \in 1..Len(meetingTurns') :
    /\ meetingTurns'[t].threadId = runs[i].threadId
    /\ meetingTurns'[t].room = "collaboration"
    /\ meetingTurns'[t].speakerId = item.memberId
    /\ meetingTurns'[t].text = item.note
    /\ meetingTurns'[t].source = "workflow"

\* the plan of the speaker in the run's thread, with the text given
PlanStored(i, item, text) ==
  \E p \in 1..Len(actionPlans') :
    /\ actionPlans'[p].threadId = runs[i].threadId
    /\ actionPlans'[p].memberId = item.memberId
    /\ actionPlans'[p].plan = text
    /\ actionPlans'[p].source = "workflow"

\* C25: by the time a successful run enters the execution phase, every agent
\* that spoke in the collaboration session has a MeetingTurn recorded with
\* its note and an ActionPlan in the run's thread whose text is that note and
\* whose source is workflow.
NotesRecordedVerbatim ==
  [][ \A i \in RunSlots :
        EntersExecution(i) =>
          /\ runs'[i].notes # << >>
          /\ \A k \in 1..Len(runs'[i].notes) :
               /\ TurnRecorded(i, runs'[i].notes[k])
               /\ PlanStored(i, runs'[i].notes[k], runs'[i].notes[k].note)
    ]_vars

\* C25, amended: ... has a MeetingTurn recorded with its note and an
\* ActionPlan in the run's thread whose text is that note with leading and
\* trailing whitespace removed and whose source is workflow.
NotesRecordedTrimmed ==
  [][ \A i \in RunSlots :
        EntersExecution(i) =>
          /\ runs'[i].notes # << >>
          /\ \A k \in 1..Len(runs'[i].notes) :
               /\ TurnRecorded(i, runs'[i].notes[k])
               /\ PlanStored(i, runs'[i].notes[k],
                             Trim(runs'[i].notes[k].note))
    ]_vars

\* a run is in its execution phase after a session of two speakers in which
\* the call of DEV-TAN failed: its turn holds the substitute note, its plan
\* the trimmed note
NotesRecordedWitness ==
  \E i \in RunSlots :
    /\ runs[i].pc = "execution"
    /\ Len(runs[i].notes) = 2
    /\ \E k \in 1..2 :
         /\ runs[i].notes[k] = [ memberId |-> "DEV-TAN", note |-> FailureNote ]
    /\ \E t \in 1..Len(meetingTurns) :
         /\ meetingTurns[t].speakerId = "DEV-TAN"
         /\ meetingTurns[t].text = FailureNote
    /\ \E p \in 1..Len(actionPlans) :
         /\ actionPlans[p].memberId = "DEV-TAN"
         /\ actionPlans[p].threadId = runs[i].threadId
         /\ actionPlans[p].plan = Trim(FailureNote)
         /\ actionPlans[p].source = "workflow"
(***************************************************************************)
(* The governance watcher while meeting turns are recorded                 *)
(***************************************************************************)
\* the number of meeting turns followed
MaxWatchedTurns == 7

\* appendMeetingTurn during a run or a chat reply: the turn is prepended to
\* the list and the effect runs with the new list
MeetingTurnRecorded ==
  \E t \in Threads :
    /\ Len(meetingTurns) < MaxWatchedTurns
    /\ meetingTurns' =
         AppendTurn(meetingTurns, nextId, t, "collaboration", "DEV-TAN",
                    GeneratedText, "workflow")
    /\ nextId' = nextId + 1
    /\ GovernanceEffect(running, activeThreadId, messages, meetingTurns')
    /\ UNCHANGED << now, running, phase, messages, activeThreadId,
                    governanceAlerts, governanceLastRunRef, auditsInFlight,
                    audits, actionPlans, registryVars, proxyVars,
                    workflowError, agentActive, activeMembers, activityLogs,
                    reports, threadTitle, user, sendingMessage, runs,
                    dispatchCalls, callFailures, runsAccepted,
                    workflowFailures, collabVars, chatVars >>

\* the effect and its timeout while turns and messages are recorded; the
\* audits started by the timeout stay in flight
WatcherTurnsNext ==
  \/ MeetingTurnRecorded
  \/ OperatorMessageArrives
  \/ GovernanceTimerFires

SpecWatcherTurns == WatcherInit /\ [][WatcherTurnsNext]_vars

\* the fingerprint of the active thread's window
Fingerprint == Signature(activeThreadId, messages, meetingTurns)

\* a step that records a meeting turn in the active thread
RecordsTurnInActiveThread ==
  /\ Len(meetingTurns') = Len(meetingTurns) + 1
  /\ meetingTurns'[1].threadId = activeThreadId
  /\ activeThreadId' = activeThreadId

\* the window holds the most recently created turns and messages of the
\* active thread: nothing outside it is newer than something inside it
WindowIsMostRecent ==
  LET turns == visibleMeetingTurns(meetingTurns, activeThreadId)
      window == meetingSlice(meetingTurns, activeThreadId)
      chats == visibleMessages(messages, activeThreadId)
      chatWindow == messageSlice(messages, activeThreadId)
  IN
  /\ Len(window) = IF Len(turns) < MeetingWindow THEN Len(turns)
                   ELSE MeetingWindow
  /\ \A a \in 1..Len(turns), b \in 1..Len(window) :
       turns[a] \notin SeqRange(window) => turns[a].id < window[b].id
  /\ Len(chatWindow) = IF Len(chats) < MessageWindow THEN Len(chats)
                       ELSE MessageWindow
  /\ \A a \in 1..Len(chats), b \in 1..Len(chatWindow) :
       chats[a] \notin SeqRange(chatWindow) => chats[a].id < chatWindow[b].id

\* C30: the activity window that the watcher fingerprints and audits consists
\* of the 4 most recently created chat messages and the 6 most recently
\* created meeting turns of the active thread, so recording a new meeting
\* turn in the active thread always changes the fingerprint.
NewTurnChangesFingerprint ==
  /\ []WindowIsMostRecent
  /\ [][RecordsTurnInActiveThread => Fingerprint' # Fingerprint]_vars
(***************************************************************************)
(* The governance watcher under fair scheduling of its timeout             *)
(***************************************************************************)
\* a pending timeout fires, and a started audit settles
SpecWatcherFair ==
  /\ SpecWatcher
  /\ WF_vars(GovernanceTimerFires)
  /\ WF_vars(GovernanceAuditSettles)

\* an audit was executed for the fingerprint stored as the last one
\* evaluated
StoredFingerprintAudited ==
  \E k \in 1..Len(audits) : audits[k].signature = governanceSignatureRef

\* C31: whenever the observer stores a fingerprint as the last one
\* evaluated, an audit of that window is eventually executed, also when the
\* dependencies of the effect change before the debounce delay has elapsed.
StoredFingerprintEventuallyAudited ==
  (governanceSignatureRef # NoSignature) ~> StoredFingerprintAudited
(***************************************************************************)
(* runPoPmManagementPlan, one step per generation call                     *)
(***************************************************************************)
\* a plausible slip: the schedule request is built without the assignment
ManagementPmInputWithoutPo(task, strategy, poPlan) ==
  << "CEO" >> \o task \o << "\n", "\n", "STRATEGY" >> \o strategy
    \o << "\n", "\n", "ROLE" >>

\* the input of the PM-TAN request: the four parts, joined
ManagementPmInput(task, strategy, poPlan) ==
  << "CEO" >> \o task \o << "\n", "\n", "STRATEGY" >> \o strategy
    \o << "\n", "\n", "PO" >> \o poPlan \o << "\n", "\n", "ROLE" >>

\* no token: the two fixed offline plans, no generation call
ManagementOffline ==
  \E i \in RunSlots :
    /\ runs[i].pc = "management"
    /\ ~runs[i].user
    /\ ManagementRecorded(i, OfflinePoPlan, OfflinePmPlan)
    /\ UNCHANGED dispatchCalls

\* the PO-TAN request returns and the PM-TAN request is sent
ManagementPoReturns ==
  \E i \in RunSlots, poPlan \in GeneratedTexts :
    LET r == runs[i] IN
    /\ r.pc = "management"
    /\ r.user
    /\ dispatchCalls' = dispatchCalls + 1
    /\ runs' = [ runs EXCEPT
                   ![i].pc = "managementPm",
                   ![i].poPlan = poPlan,
                   ![i].pmInput =
                     ManagementPmInput(r.task, r.strategy, poPlan) ]
    /\ UNCHANGED << now, nextId, actionPlans, running, phase, workflowError,
                    agentActive, activeMembers, activityLogs, meetingTurns,
                    threadTitle, activeThreadId, user, sendingMessage,
                    runsAccepted, reports, messages, governanceAlerts,
                    callFailures, workflowFailures, registryVars,
                    serviceVars >>

\* the PM-TAN request returns: runPoPmManagementPlan returns both plans
ManagementPmReturns ==
  \E i \in RunSlots, pmPlan \in GeneratedTexts :
    /\ runs[i].pc = "managementPm"
    /\ dispatchCalls' = dispatchCalls + 1
    /\ ManagementRecorded(i, runs[i].poPlan, pmPlan)

\* one of the awaited generation calls of a run throws: the catch block
CallThrows ==
  \E i \in RunSlots :
    /\ runs[i].pc
         \in { "brainstorm", "management", "managementPm", "finalReport" }
    /\ runs[i].user
    /\ callFailures < MaxCallFailures
    /\ callFailures' = callFailures + 1
    /\ dispatchCalls' = dispatchCalls + 1
    /\ CatchBlock(i, activityLogs)
    /\ UNCHANGED << threadTitle, activeThreadId, user, runsAccepted,
                    meetingTurns, reports, messages, governanceAlerts,
                    sharedVars, registryVars, serviceVars >>

ManagementNext ==
  \/ FormSubmitAccepted
  \/ FormSubmitRejected
  \/ ChatRunSubmit
  \/ ChatRunRejected
  \/ ChatRunAccepted
  \/ CallThrows
  \/ BrainstormOffline
  \/ BrainstormParsed
  \/ BrainstormUnparsed
  \/ ManagementOffline
  \/ ManagementPoReturns
  \/ ManagementPmReturns
  \/ CollaborationDone
  \/ ExecutionDone
  \/ ReportDone

SpecManagement == WorkflowInit /\ [][ManagementNext]_vars

\* the schedule request is in flight only with the assignment returned, and
\* its input holds the assignment
PmStartsAfterPo ==
  \A i \in RunSlots :
    runs[i].pc = "managementPm" =>
      /\ runs[i].poPlan \in GeneratedTexts
      /\ Contains(runs[i].pmInput, runs[i].poPlan)

\* a request goes out for PM-TAN only in the step in which PO-TAN's returns
PmRequestFollowsPoReturn ==
  \A i \in RunSlots :
    ( runs'[i].pmInput # runs[i].pmInput ) =>
      /\ runs[i].pc = "management"
      /\ runs'[i].pc = "managementPm"

\* the turn of a speaker with a text, written for a thread by this step
TurnWritten(threadId, speakerId, text) ==
  \E k \in 1..(Len(meetingTurns') - Len(meetingTurns)) :
    /\ meetingTurns'[k].threadId = threadId
    /\ meetingTurns'[k].speakerId = speakerId
    /\ meetingTurns'[k].text = text
    /\ meetingTurns'[k].room = "collaboration"

\* the plan stored for a key after this step
ManagementPlanStored(threadId, memberId, text) ==
  \E k \in 1..Len(actionPlans') :
    /\ actionPlans'[k].threadId = threadId
    /\ actionPlans'[k].memberId = memberId
    /\ actionPlans'[k].plan = Trim(text)
    /\ actionPlans'[k].source = "management"

\* the collaboration session of a run starts in the step that records both
\* plans of the run
CollaborationStartsRecorded ==
  \A i \in RunSlots :
    ( runs[i].pc # "collaboration" /\ runs'[i].pc = "collaboration" ) =>
      LET r == runs'[i] IN
      /\ runs[i].pc \in { "management", "managementPm" }
      /\ r.user => runs[i].pc = "managementPm" /\ r.poPlan = runs[i].poPlan
      /\ TurnWritten(r.threadId, "PO-TAN", r.poPlan)
      /\ TurnWritten(r.threadId, "PM-TAN", r.pmPlan)
      /\ ManagementPlanStored(r.threadId, "PO-TAN", r.poPlan)
      /\ ManagementPlanStored(r.threadId, "PM-TAN", r.pmPlan)

\* C32: the two management generations run strictly in sequence: the PM-TAN
\* generation is not started before the PO-TAN generation has returned, its
\* input contains the PO-TAN output, and both results are recorded as
\* meeting turns and upserted with source management before the
\* collaboration session starts.
ManagementInSequence ==
  /\ []PmStartsAfterPo
  /\ [][PmRequestFollowsPoReturn /\ CollaborationStartsRecorded]_vars

\* a signed-in run has entered its collaboration session with two different
\* plans
ManagementInSequenceWitness ==
  \E i \in RunSlots :
    /\ runs[i].pc = "collaboration"
    /\ runs[i].user
    /\ runs[i].poPlan # runs[i].pmPlan
    /\ Contains(runs[i].pmInput, runs[i].poPlan)
(***************************************************************************)
(* triggerOfficerReplies: the replies to one chat message                  *)
(***************************************************************************)
DEFAULT_CHAT_RECIPIENTS == << "ATTENDANT-TAN", "PM-TAN", "DEV-TAN", "UX-TAN" >>

\* the values of the recipient select that are followed
ChatTargets == { "ALL", "DEV-TAN", "UX-TAN" }

\* the trimmed text of the chat message, word by word: a plain message, an
\* image command with a prompt, an image command without one
ChatPrompts ==
  { << "q" >>, << "/ux-image", " ", "k" >>, << "/ux-image" >> }

\* ceoPrompt.trim().startsWith("/ux-image")
startsWithUxImage(ceoPrompt) ==
  Len(Trim(ceoPrompt)) > 0 /\ Trim(ceoPrompt)[1] = "/ux-image"

\* ceoPrompt.replace(/^\/ux-image\s*/i, "").trim()
UxImagePrompt(ceoPrompt) == Trim(Tail(ceoPrompt))

\* targetId === "ALL" ? DEFAULT_CHAT_RECIPIENTS : [targetId]
resolvedTargets(targetId) ==
  IF targetId = "ALL" THEN DEFAULT_CHAT_RECIPIENTS ELSE << targetId >>

\* `CEO-HOBBY: ${ceoPrompt}\n`
ChatDialogueSeed(ceoPrompt) ==
  << "CEO-HOBBY", ":", " " >> \o ceoPrompt \o << "\n" >>

\* the reply runOfficerSingleReply returns without a token
OfflineChatReply(ceoPrompt) == << "offline" >> \o ceoPrompt

\* a plausible slip: the request carries the message without the dialogue
OfficerInputWithoutDialogue(memberId, ceoPrompt, targetLabel, priorDialogue) ==
  << "CEO" >> \o ceoPrompt \o << "\n", "\n", "TARGET", targetLabel >>
    \o << "\n", "\n", "FILES", "-", "\n", "\n", "PRIOR", "-", "\n", "\n" >>
    \o (IF memberId = "DEV-TAN" THEN << "DEV" >> ELSE << >>)
    \o << "\n", "\n", "FORMAT" >>

\* the input of runOfficerSingleReply's request: the six parts, joined
OfficerInput(memberId, ceoPrompt, targetLabel, priorDialogue) ==
  << "CEO" >> \o ceoPrompt \o << "\n", "\n", "TARGET", targetLabel >>
    \o << "\n", "\n", "FILES", "-", "\n", "\n", "PRIOR" >>
    \o (IF priorDialogue # << >> THEN priorDialogue ELSE << "-" >>)
    \o << "\n", "\n" >>
    \o (IF memberId = "DEV-TAN" THEN << "DEV" >> ELSE << >>)
    \o << "\n", "\n", "FORMAT" >>

\* what no step of the batch writes
chatFrame ==
  << now, registryVars, running, phase, workflowError, activeMembers,
     reports, threadTitle, user, sendingMessage, runs, runsAccepted,
     workflowFailures, proxyVars, watcherVars, collabVars >>

\* the target of the current iteration
ChatMember == batch.targets[batch.index]

\* the current iteration takes the image branch
ImageBranch == ChatMember = "UX-TAN" /\ startsWithUxImage(batch.ceoPrompt)

\* handleSendChat with a message that is no "/run" directive, and
\* triggerOfficerReplies up to the first sleep of its loop
ChatSend ==
  \E ceoPrompt \in ChatPrompts, targetId \in ChatTargets :
    /\ batch.pc = "none"
    /\ ~sendingMessage
    /\ messages' =
         PersistMessage(messages, activeThreadId, "CEO-HOBBY", "chat", user)
    /\ activityLogs' = AppendLog(activityLogs, activeThreadId, "execution")
    /\ agentActive' =
         IF running THEN agentActive
         ELSE moveMembersToRoom(agentActive, resolvedTargets(targetId))
    /\ batch' =
         [ NoBatch EXCEPT
             !.pc = "target", !.online = user, !.threadId = activeThreadId,
             !.ceoPrompt = ceoPrompt, !.targetId = targetId,
             !.targets = resolvedTargets(targetId), !.index = 1,
             !.priorDialogue = ChatDialogueSeed(ceoPrompt),
             !.moved = ~running ]
    /\ UNCHANGED << nextId, actionPlans, meetingTurns, governanceAlerts,
                    activeThreadId, dispatchCalls, callFailures, chatFrame >>

\* the rest of an iteration after runOfficerSingleReply returned: the
\* message, the meeting turn, the plan, the dialogue and the log.  The
\* upload of the deliverable is caught on its own and changes nothing here.
FinalizeReply(reply) ==
  /\ messages' =
       PersistMessage(messages, batch.threadId, ChatMember, "chat",
                      batch.online)
  /\ meetingTurns' =
       AppendTurn(meetingTurns, nextId, batch.threadId, "collaboration",
                  ChatMember, reply, "chat")
  /\ actionPlans' =
       upsertActionPlan(actionPlans, ChatMember, reply, "manual",
                        batch.threadId, now, nextId + 1)
  /\ nextId' = nextId + 2
  /\ activityLogs' = AppendLog(activityLogs, batch.threadId, "execution")
  /\ batch' =
       [ batch EXCEPT
           !.pc = "target",
           !.index = @ + 1,
           !.priorDialogue =
             @ \o << ChatMember, ":", " " >> \o reply \o << "\n", "\n" >>,
           !.outcomes = Append(@, [ memberId |-> ChatMember,
                                    kind |-> "reply", text |-> reply ]) ]

\* a plausible slip: a failure ends the loop
FailReplyEndsLoop ==
  /\ activityLogs' = AppendLog(activityLogs, batch.threadId, "execution")
  /\ messages' =
       PersistMessage(messages, batch.threadId, ChatMember, "system",
                      batch.online)
  /\ batch' =
       [ batch EXCEPT
           !.pc = "target",
           !.index = Len(batch.targets) + 1,
           !.outcomes = Append(@, [ memberId |-> ChatMember,
                                    kind |-> "failed", text |-> << >> ]) ]
  /\ UNCHANGED << nextId, actionPlans, meetingTurns >>

\* the catch block of an iteration: a log and a system message
FailReply ==
  /\ activityLogs' = AppendLog(activityLogs, batch.threadId, "execution")
  /\ messages' =
       PersistMessage(messages, batch.threadId, ChatMember, "system",
                      batch.online)
  /\ batch' =
       [ batch EXCEPT
           !.pc = "target",
           !.index = @ + 1,
           !.outcomes = Append(@, [ memberId |-> ChatMember,
                                    kind |-> "failed", text |-> << >> ]) ]
  /\ UNCHANGED << nextId, actionPlans, meetingTurns >>

\* an iteration without a token: the fixed offline reply
ChatReplyOffline ==
  /\ batch.pc = "target"
  /\ batch.index <= Len(batch.targets)
  /\ ~batch.online
  /\ ~ImageBranch
  /\ FinalizeReply(OfflineChatReply(batch.ceoPrompt))
  /\ UNCHANGED << agentActive, governanceAlerts, activeThreadId,
                  dispatchCalls, callFailures, chatFrame >>

\* an iteration with a token, up to the await of requestLlmText
ChatReplyRequest ==
  /\ batch.pc = "target"
  /\ batch.index <= Len(batch.targets)
  /\ batch.online
  /\ ~ImageBranch
  /\ batch' =
       [ batch EXCEPT
           !.pc = "awaiting",
           !.inputs =
             Append(@, [ memberId |-> ChatMember,
                         replies |-> Len(batch.outcomes),
                         text |->
                           OfficerInput(ChatMember, batch.ceoPrompt,
                                        batch.targetId,
                                        batch.priorDialogue) ]) ]
  /\ dispatchCalls' = dispatchCalls + 1
  /\ UNCHANGED << nextId, actionPlans, messages, meetingTurns, activityLogs,
                  agentActive, governanceAlerts, activeThreadId,
                  callFailures, chatFrame >>

\* requestLlmText returned
ChatReplyReturns ==
  \E reply \in GeneratedTexts :
    /\ batch.pc = "awaiting"
    /\ FinalizeReply(reply)
    /\ UNCHANGED << agentActive, governanceAlerts, activeThreadId,
                    dispatchCalls, callFailures, chatFrame >>

\* requestLlmText threw
ChatReplyThrows ==
  /\ batch.pc = "awaiting"
  /\ FailReply
  /\ callFailures' = callFailures + 1
  /\ UNCHANGED << agentActive, governanceAlerts, activeThreadId,
                  dispatchCalls, chatFrame >>

\* the image command without a prompt: the usage message, then continue
ChatUxImageUsage ==
  /\ batch.pc = "target"
  /\ batch.index <= Len(batch.targets)
  /\ ImageBranch
  /\ UxImagePrompt(batch.ceoPrompt) = << >>
  /\ messages' =
       PersistMessage(messages, batch.threadId, ChatMember, "system",
                      batch.online)
  /\ batch' =
       [ batch EXCEPT
           !.index = @ + 1,
           !.outcomes = Append(@, [ memberId |-> ChatMember,
                                    kind |-> "usage", text |-> << >> ]) ]
  /\ UNCHANGED << nextId, actionPlans, meetingTurns, activityLogs,
                  agentActive, governanceAlerts, activeThreadId,
                  dispatchCalls, callFailures, chatFrame >>

\* the image command with a prompt: runUxImageGeneration returns, and the
\* image message and the meeting turn are recorded
ChatUxImageDelivered ==
  \E text \in GeneratedTexts :
    /\ batch.pc = "target"
    /\ batch.index <= Len(batch.targets)
    /\ ImageBranch
    /\ UxImagePrompt(batch.ceoPrompt) # << >>
    /\ batch.online
    /\ messages' =
         PersistMessage(messages, batch.threadId, ChatMember, "image",
                        batch.online)
    /\ meetingTurns' =
         AppendTurn(meetingTurns, nextId, batch.threadId, "collaboration",
                    ChatMember, text, "chat")
    /\ nextId' = nextId + 1
    /\ activityLogs' = AppendLogs(activityLogs, batch.threadId, "execution", 2)
    /\ batch' =
         [ batch EXCEPT
             !.index = @ + 1,
             !.outcomes = Append(@, [ memberId |-> ChatMember,
                                      kind |-> "image", text |-> text ]) ]
    /\ UNCHANGED << actionPlans, agentActive, governanceAlerts,
                    activeThreadId, dispatchCalls, callFailures, chatFrame >>

\* the image command with a prompt: runUxImageGeneration throws (it always
\* does without a token)
ChatUxImageThrows ==
  /\ batch.pc = "target"
  /\ batch.index <= Len(batch.targets)
  /\ ImageBranch
  /\ UxImagePrompt(batch.ceoPrompt) # << >>
  /\ activityLogs' = AppendLogs(activityLogs, batch.threadId, "execution", 2)
  /\ messages' =
       PersistMessage(messages, batch.threadId, ChatMember, "system",
                      batch.online)
  /\ batch' =
       [ batch EXCEPT
           !.index = @ + 1,
           !.outcomes = Append(@, [ memberId |-> ChatMember,
                                    kind |-> "failed", text |-> << >> ]) ]
  /\ callFailures' = callFailures + 1
  /\ UNCHANGED << nextId, actionPlans, meetingTurns, agentActive,
                  governanceAlerts, activeThreadId, dispatchCalls,
                  chatFrame >>

\* a plausible slip: no pass is made after a batch in which a reply failed
ChatLoopEndsSkipsPassOnFailure ==
  /\ batch.pc = "target"
  /\ batch.index > Len(batch.targets)
  /\ agentActive' =
       IF batch.moved THEN setMembersToDesk(agentActive, batch.targets, FALSE)
       ELSE agentActive
  /\ batch' =
       IF \E k \in 1..Len(batch.outcomes) : batch.outcomes[k].kind = "failed"
       THEN [ batch EXCEPT !.pc = "done" ]
       ELSE [ batch EXCEPT !.pc = "governanceLegal", !.passes = @ + 1 ]
  /\ UNCHANGED << nextId, actionPlans, messages, meetingTurns, activityLogs,
                  governanceAlerts, activeThreadId, dispatchCalls,
                  callFailures, chatFrame >>

\* the loop is over: the targets return to their desks and
\* runGovernanceWatch is called
ChatLoopEnds ==
  /\ batch.pc = "target"
  /\ batch.index > Len(batch.targets)
  /\ agentActive' =
       IF batch.moved THEN setMembersToDesk(agentActive, batch.targets, FALSE)
       ELSE agentActive
  /\ batch' = [ batch EXCEPT !.pc = "governanceLegal", !.passes = @ + 1 ]
  /\ UNCHANGED << nextId, actionPlans, messages, meetingTurns, activityLogs,
                  governanceAlerts, activeThreadId, dispatchCalls,
                  callFailures, chatFrame >>

\* one iteration of the loop of runGovernanceWatch inside the batch
ChatChecker(checker, outcome, from, to) ==
  /\ batch.pc = from
  /\ callFailures' = callFailures + (IF outcome.threw THEN 1 ELSE 0)
  /\ dispatchCalls' = dispatchCalls + (IF batch.online THEN 1 ELSE 0)
  /\ governanceAlerts' =
       CheckerAlert(governanceAlerts, batch.threadId, checker, outcome)
  /\ activityLogs' = AppendLog(activityLogs, batch.threadId, "execution")
  /\ batch' = [ batch EXCEPT !.pc = to ]
  /\ UNCHANGED << nextId, actionPlans, messages, meetingTurns, agentActive,
                  activeThreadId, chatFrame >>

ChatCheckLegal ==
  \E outcome \in CheckerOutcomes(batch.online, { GeneratedText }) :
    ChatChecker("LEGAL-TAN", outcome, "governanceLegal", "governanceHr")

ChatCheckHr ==
  \E outcome \in CheckerOutcomes(batch.online, { GeneratedText }) :
    ChatChecker("HR-TAN", outcome, "governanceHr", "done")

ChatNext ==
  \/ ChatSend
  \/ ChatReplyOffline
  \/ ChatReplyRequest
  \/ ChatReplyReturns
  \/ ChatReplyThrows
  \/ ChatUxImageUsage
  \/ ChatUxImageDelivered
  \/ ChatUxImageThrows
  \/ ChatLoopEnds
  \/ ChatCheckLegal
  \/ ChatCheckHr
  \/ WorkflowSelectThread

SpecChat == WorkflowInit /\ [][ChatNext]_vars
(***************************************************************************)
(* Properties of the chat replies                                          *)
(***************************************************************************)
\* `${member.id}: ${reply}\n\n`
ChatDialogueEntry(outcome) ==
  << outcome.memberId, ":", " " >> \o outcome.text \o << "\n", "\n" >>

\* the targets are processed one at a time, in the order of the list
TargetsInOrder ==
  /\ batch.pc \in { "target", "awaiting" } =>
       batch.index = Len(batch.outcomes) + 1
  /\ \A k \in 1..Len(batch.outcomes) :
       batch.outcomes[k].memberId = batch.targets[k]
  /\ batch.pc = "awaiting" =>
       /\ batch.inputs # << >>
       /\ batch.inputs[Len(batch.inputs)].memberId = ChatMember
       /\ batch.inputs[Len(batch.inputs)].replies = Len(batch.outcomes)

\* a request is sent only while none is awaited
OneRequestAtATime ==
  Len(batch'.inputs) > Len(batch.inputs) =>
    /\ batch.pc = "target"
    /\ batch'.pc = "awaiting"
    /\ Len(batch'.inputs) = Len(batch.inputs) + 1

\* the dialogue starts as the triggering message only
DialogueSeeded ==
  ( batch.pc = "none" /\ batch'.pc # "none" ) =>
    batch'.priorDialogue = ChatDialogueSeed(batch'.ceoPrompt)

\* the plan stored for the target of the outcome a step adds
ChatPlanStored(outcome) ==
  \E k \in 1..Len(actionPlans') :
    /\ actionPlans'[k].threadId = batch.threadId
    /\ actionPlans'[k].memberId = outcome.memberId
    /\ actionPlans'[k].plan = Trim(outcome.text)
    /\ actionPlans'[k].source = "manual"

\* a step that adds an outcome of one of the kinds appends its entry to the
\* dialogue and stores its plan, with no request under way
RepliesRecorded(kinds) ==
  Len(batch'.outcomes) > Len(batch.outcomes) =>
    LET outcome == batch'.outcomes[Len(batch'.outcomes)] IN
    outcome.kind \in kinds =>
      /\ batch'.priorDialogue =
           batch.priorDialogue \o ChatDialogueEntry(outcome)
      /\ ChatPlanStored(outcome)
      /\ batch'.pc = "target"

\* the input of each request holds the entry of every reply delivered
\* before it, of one of the kinds
InputsHoldEarlierReplies(kinds) ==
  \A j \in 1..Len(batch.inputs) :
    /\ Contains(batch.inputs[j].text, ChatDialogueSeed(batch.ceoPrompt))
    /\ \A k \in 1..batch.inputs[j].replies :
         batch.outcomes[k].kind \in kinds =>
           Contains(batch.inputs[j].text,
                    ChatDialogueEntry(batch.outcomes[k]))

\* C33 as stated: in a chat batch the targeted agents are called one at a
\* time in the given target order; the prior dialogue starts as the
\* triggering message only, and each successful reply is appended to it and
\* upserted into the plan registry before the next target's generation
\* starts, so each target's input contains every earlier successful reply.
EveryReplyAccumulates ==
  /\ []TargetsInOrder
  /\ []InputsHoldEarlierReplies({ "reply", "image" })
  /\ [][/\ OneRequestAtATime
        /\ DialogueSeeded
        /\ RepliesRecorded({ "reply", "image" })]_vars

\* C33, amended: as stated for the replies runOfficerSingleReply returns;
\* the delivery of UX-TAN for an image command is recorded as an image
\* message and a meeting turn only.
TextRepliesAccumulate ==
  /\ []TargetsInOrder
  /\ []InputsHoldEarlierReplies({ "reply" })
  /\ [][/\ OneRequestAtATime
        /\ DialogueSeeded
        /\ RepliesRecorded({ "reply" })]_vars

\* the request of the third target is under way after two different replies
TextRepliesWitness ==
  /\ batch.pc = "awaiting"
  /\ batch.index = 3
  /\ batch.outcomes[1].kind = "reply"
  /\ batch.outcomes[2].kind = "reply"
  /\ batch.outcomes[1].text # batch.outcomes[2].text
  /\ Contains(batch.inputs[Len(batch.inputs)].text,
              ChatDialogueEntry(batch.outcomes[1])
                \o ChatDialogueEntry(batch.outcomes[2]))
\* the pcs of a batch whose loop is over
AfterLoopPcs == { "governanceLegal", "governanceHr", "done" }

\* runGovernanceWatch is called once, with every target processed
OnePassAfterLastTarget ==
  /\ batch.passes = (IF batch.pc \in AfterLoopPcs THEN 1 ELSE 0)
  /\ batch.pc \in AfterLoopPcs =>
       /\ Len(batch.outcomes) = Len(batch.targets)
       /\ batch.index = Len(batch.targets) + 1
  /\ Len(governanceAlerts) =
       ( IF batch.pc = "done" THEN 2
         ELSE IF batch.pc = "governanceHr" THEN 1 ELSE 0 )

\* alerts are added by the pass only
AlertsFromThePassOnly ==
  governanceAlerts' # governanceAlerts => batch.pc \in AfterLoopPcs

\* C34: every chat batch ends with exactly one governance pass, started only
\* after the last target has been processed, whether the replies succeeded
\* or failed.
BatchEndsWithOnePass ==
  /\ []OnePassAfterLastTarget
  /\ [][AlertsFromThePassOnly]_vars

\* a batch is over in which one reply succeeded and one failed
BatchEndsWithOnePassWitness ==
  /\ batch.pc = "done"
  /\ batch.passes = 1
  /\ \E k \in 1..Len(batch.outcomes) : batch.outcomes[k].kind = "failed"
  /\ \E k \in 1..Len(batch.outcomes) : batch.outcomes[k].kind = "reply"

\* a step that records the failure of a target persists one system message
\* of the target, stores no plan, leaves the dialogue alone and moves on to
\* the next target
FailureIsContained ==
  Len(batch'.outcomes) > Len(batch.outcomes) =>
    LET outcome == batch'.outcomes[Len(batch'.outcomes)] IN
    outcome.kind = "failed" =>
      /\ outcome.memberId = ChatMember
      /\ messages' =
           Append(messages, [ threadId |-> batch.threadId,
                              senderId |-> ChatMember, kind |-> "system",
                              source |-> IF batch.online THEN "cloud"
                                         ELSE "local" ])
      /\ actionPlans' = actionPlans
      /\ meetingTurns' = meetingTurns
      /\ batch'.priorDialogue = batch.priorDialogue
      /\ batch'.index = batch.index + 1
      /\ batch'.pc = "target"

\* the loop ends only with an outcome for every target
EveryTargetProcessed ==
  batch.pc \in AfterLoopPcs =>
    /\ Len(batch.outcomes) = Len(batch.targets)
    /\ \A k \in 1..Len(batch.targets) :
         batch.outcomes[k].memberId = batch.targets[k]

\* C37: in a chat batch, when one target's generation fails, a system
\* failure message is persisted for that target, no plan is upserted for it
\* and nothing is appended to the prior dialogue for it, and the remaining
\* targets are still processed in order.
FailedTargetIsSkipped ==
  /\ []EveryTargetProcessed
  /\ [][FailureIsContained]_vars

\* a reply was delivered after the failure of the target before it
FailedTargetWitness ==
  \E k \in 1..(Len(batch.outcomes) - 1) :
    /\ batch.outcomes[k].kind = "failed"
    /\ batch.outcomes[k + 1].kind = "reply"
    /\ batch.outcomes[k + 1].memberId = batch.targets[k + 1]
(***************************************************************************)
(* The reporting tail when the document store rejects a write              *)
(***************************************************************************)
\* the assets of the report of a run
ReportAssets(r) ==
  SelectSeq(<< "report", "transcript", "inbound" >>,
            LAMBDA a : /\ a = "transcript" => Len(r.notes) > 0
                       /\ a = "inbound" => r.inbound = "uploaded")

\* await persistReport(reportData): addDoc throws and the catch block adds
\* the report to the local list
TailPersistReportThrows ==
  \E i \in RunSlots :
    LET r == runs[i] IN
    /\ r.pc = "persistReport"
    /\ r.user
    /\ reports' =
         PersistReport(reports, r.threadId, r.report, r.participants,
                       ReportAssets(r), FALSE)
    /\ runs' = [ runs EXCEPT ![i].pc = "persistMessage" ]
    /\ UNCHANGED << phase, activityLogs, messages, governanceAlerts,
                    dispatchCalls, callFailures, tailFrame >>

\* await persistOfficeMessage(...): addDoc throws and the catch block adds
\* the message to the local list
TailPersistMessageThrows ==
  \E i \in RunSlots :
    LET r == runs[i] IN
    /\ r.pc = "persistMessage"
    /\ r.user
    /\ messages' =
         PersistMessage(messages, r.threadId, "ATTENDANT-TAN", "report",
                        FALSE)
    /\ runs' = [ runs EXCEPT ![i].pc = "governanceLegal" ]
    /\ UNCHANGED << phase, activityLogs, reports, governanceAlerts,
                    dispatchCalls, callFailures, tailFrame >>

\* runs started from the directive form, with a store that may reject
ReportStoreNext ==
  \/ FormSubmitAccepted
  \/ FormSubmitRejected
  \/ RunThrows
  \/ BrainstormOffline
  \/ BrainstormParsed
  \/ BrainstormUnparsed
  \/ ManagementDone
  \/ CollaborationDone
  \/ ExecutionDone
  \/ TailFinalReport
  \/ TailPersistReport
  \/ TailPersistReportThrows
  \/ TailPersistMessage
  \/ TailPersistMessageThrows
  \/ TailCheckLegal
  \/ TailCheckHr
  \/ TailFinish

SpecReportStore == WorkflowInit /\ [][ReportStoreNext]_vars

\* the pcs of a run that has left persistReport
AfterPersistReportPcs ==
  { "persistMessage", "governanceLegal", "governanceHr", "governed", "done" }

\* one report record per run that has passed persistReport, and one report
\* message per run that has passed persistOfficeMessage
OneRecordPerRun ==
  /\ Len(reports) =
       Cardinality({ i \in RunSlots : runs[i].pc \in AfterPersistReportPcs })
  /\ Len(messages) =
       Cardinality({ i \in RunSlots :
                       runs[i].pc \in AfterPersistReportPcs
                                        \ { "persistMessage" } })
  /\ \A k \in 1..Len(reports) :
       /\ reports[k].source \in { "cloud", "local" }
       /\ ~user => reports[k].source = "local"

\* a run leaves persistReport and persistOfficeMessage for the next step of
\* the tail only, with its record added, and never for the catch block
PersistenceNeverFails ==
  \A i \in RunSlots :
    /\ ( runs[i].pc = "persistReport" /\ runs'[i].pc # "persistReport" ) =>
         /\ runs'[i].pc = "persistMessage"
         /\ Len(reports') = Len(reports) + 1
         /\ reports'[Len(reports')].threadId = runs[i].threadId
         /\ reports'[Len(reports')].body = runs[i].report
         /\ workflowFailures' = workflowFailures
         /\ workflowError' = workflowError
    /\ ( runs[i].pc = "persistMessage" /\ runs'[i].pc # "persistMessage" ) =>
         /\ runs'[i].pc = "governanceLegal"
         /\ Len(messages') = Len(messages) + 1
         /\ workflowFailures' = workflowFailures
         /\ workflowError' = workflowError
    /\ ( runs[i].pc \in AfterPersistReportPcs /\ runs'[i].pc # runs[i].pc ) =>
         runs'[i].pc \in AfterPersistReportPcs
    /\ ( runs[i].pc # "done" /\ runs'[i].pc = "done" ) =>
         /\ runs[i].pc = "governed"
         /\ phase' = "idle"
         /\ ~running'

\* C35: persisting the final report and its notification message never
\* fails the workflow: when the document-store write throws, or no user is
\* signed in, the record is added to the local fallback list instead, so
\* each run that reaches report persistence yields exactly one report record
\* (cloud or local) and then proceeds to the governance pass and to idle.
ReportPersistenceDegrades ==
  /\ []OneRecordPerRun
  /\ [][PersistenceNeverFails]_vars

\* a signed-in run has ended whose report went to the local list and whose
\* pass was made
ReportPersistenceWitness ==
  /\ user
  /\ workflowFailures = 0
  /\ \E i \in RunSlots : runs[i].pc = "done"
  /\ \E k \in 1..Len(reports) : reports[k].source = "local"
  /\ Len(governanceAlerts) >= 2
  /\ phase = "idle"
\* C36: in every reachable state, a phase different from idle implies that
\* the running flag is set: the flag is raised before the first phase change
\* of a run and lowered only after the phase has been reset to idle, on the
\* success path and on the failure path.
PhaseImpliesRunning == phase # "idle" => running
(***************************************************************************)
(* Plan executions and the in-progress marker                              *)
(***************************************************************************)
ExecutionNext ==
  \/ UpsertManagement
  \/ UpsertCollaborationNote
  \/ UpsertChatReply
  \/ ExecuteActionPlanStart
  \/ ExecuteActionPlanRejected
  \/ ExecuteActionPlanSucceed
  \/ ExecuteActionPlanFail

SpecExecution == RegistryInit /\ [][ExecutionNext]_vars

\* the marker is set exactly while one execution is in flight
MarkerFollowsExecution ==
  /\ execCalls.inFlight \in { 0, 1 }
  /\ executingPlanId # 0 <=> execCalls.inFlight = 1
  /\ executingPlanId # 0 <=> executingPlan # NoPlan

\* a call that returns at the guard was made with the marker set, and
\* changes nothing
RejectedCallHasNoEffect ==
  execCalls'.rejected > execCalls.rejected =>
    /\ executingPlanId # 0
    /\ UNCHANGED << now, nextId, actionPlans, executingPlanId, executingPlan,
                    issued, upsertCount, execCount, workflowVars,
                    serviceVars >>
    /\ execCalls'.inFlight = execCalls.inFlight

\* the end of an execution clears the marker; an execution starts only with
\* the marker clear
MarkerClearedAtEnd ==
  /\ execCalls'.inFlight < execCalls.inFlight => executingPlanId' = 0
  /\ execCalls'.inFlight > execCalls.inFlight =>
       /\ executingPlanId = 0
       /\ executingPlanId' # 0

\* C38: at most one action-plan execution is in flight at a time:
\* executeActionPlan called while another execution is marked in progress
\* returns without any effect, and the in-progress marker is cleared
\* whenever an execution ends, by success or by failure, so that a later
\* execution can start.
OneExecutionAtATime ==
  /\ []MarkerFollowsExecution
  /\ [][RejectedCallHasNoEffect /\ MarkerClearedAtEnd]_vars

\* a second execution is in flight after a first one that failed and a call
\* that returned at the guard
OneExecutionWitness ==
  /\ execCount = 2
  /\ execCalls.inFlight = 1
  /\ execCalls.rejected = 1
  /\ \A i \in 1..Len(actionPlans) : actionPlans[i].lastExecutedAt = 0
====
